---- MODULE Spec2Model ----
(***************************************************************************)
(* Editing core of the MyNotes text editor: the piece table, the B-tree    *)
(* line index, the TextBuffer that pairs them, and the Document with its   *)
(* transactional history.                                                  *)
(*                                                                         *)
(* Bytes are natural numbers (NL is '\n').  A u64 is kept as its residue   *)
(* nearest to zero: a negative n stands for 2^64 + n, which is what a      *)
(* wrapping subtraction leaves in a build without overflow checks.         *)
(* overflow_checks tells which build runs: with checks an overflowing      *)
(* `-`, `+`, `-=` or `+=` panics, without them it wraps.                   *)
(***************************************************************************)
EXTENDS Integers, Sequences, FiniteSets, TLC

VARIABLES
    original,         \* PieceTable.original: bytes of the mapped file
    buf,              \* PieceTable.buf: the append-only add buffer
    pieces,           \* PieceTable.pieces
    undo_stack,       \* PieceTable.undo_stack
    redo_stack,       \* PieceTable.redo_stack
    overflow_checks,  \* TRUE: debug build (overflow panics); FALSE: release (wraps)
    status,           \* "ok" while the process runs, "panic" once a call panicked
    calls,            \* number of calls made so far
    last,             \* the last call made: its name, arguments, result and pre-state
    snaps,            \* per journal entry, the document before and after the edit
    root,             \* BTreeLineIndex.root
    cache,            \* BTreeLineIndex.cache
    text,             \* the bytes the line index is meant to describe
    is_dirty,         \* TextBuffer.is_dirty
    history,          \* Document.history
    doc_cursor,       \* Document.cursor
    is_recording,     \* Document.is_recording
    marks             \* where a run of edits, undos and redos stands, with the
                      \* document at its start and after its edits

vars == <<original, buf, pieces, undo_stack, redo_stack, overflow_checks, status,
          calls, last, snaps, root, cache, text, is_dirty, history, doc_cursor,
          is_recording, marks>>

(***************************************************************************)
(* Bounds of the model.                                                    *)
(***************************************************************************)
MaxCalls == 3
MaxInsertLen == 1
MaxDeleteLen == 3
MaxLiCalls == 2
MaxRemoveLen == 2
MaxTbCalls == 2
MaxDocCalls == 4
MaxHistCalls == 2

NL == 10

(***************************************************************************)
(* u64 arithmetic on residues.                                             *)
(***************************************************************************)
ULt(a, b) == IF (a < 0) = (b < 0) THEN a < b ELSE b < 0
ULe(a, b) == a = b \/ ULt(a, b)
UMin(a, b) == IF ULe(a, b) THEN a ELSE b
SubOverflows(a, b) == ULt(a, b)
AddOverflows(a, b) ==
    IF a >= 0 /\ b >= 0 THEN FALSE
    ELSE IF a < 0 /\ b < 0 THEN TRUE
    ELSE a + b >= 0

\* A local variable of the code: Op applied to the value v bound to it
Bind(v, Op(_)) == Op(v)

RECURSIVE SeqSum(_)
SeqSum(s) == IF s = <<>> THEN 0 ELSE Head(s) + SeqSum(Tail(s))

RECURSIVE Flatten(_)
Flatten(ss) == IF ss = <<>> THEN <<>> ELSE Head(ss) \o Flatten(Tail(ss))

(***************************************************************************)
(* Piece and Edit values.                                                  *)
(***************************************************************************)
Range(s, e) == [start |-> s, end |-> e]
Piece(k, s, e) == [buf_kind |-> k, range |-> Range(s, e)]

PieceLen(p) == p.range.end - p.range.start
PieceLenPanics(p) == overflow_checks /\ SubOverflows(p.range.end, p.range.start)

EditInsert(pos, range) ==
    [kind |-> "Insert", pos |-> pos, range |-> range, len |-> 0, removed |-> <<>>]
EditDelete(pos, len, removed) ==
    [kind |-> "Delete", pos |-> pos, range |-> Range(0, 0), len |-> len, removed |-> removed]

(***************************************************************************)
(* MmapFile                                                                *)
(***************************************************************************)
\* get_bytes_exact(start, length): None unless [start, start+length) lies in the file
get_bytes_exact(file, start, length) ==
    IF start < 0 \/ length < 0 \/ start + length > Len(file)
    THEN [some |-> FALSE, bytes |-> <<>>]
    ELSE [some |-> TRUE, bytes |-> SubSeq(file, start + 1, start + length)]

\* get_bytes_clamped(start, length): the part of [start, start+length) inside the file
get_bytes_clamped(file, start, length) ==
    IF ~ULt(start, Len(file)) THEN <<>>
    ELSE LET end == IF length < 0 \/ start + length > Len(file) THEN Len(file)
                    ELSE start + length
         IN SubSeq(file, start + 1, end)

(***************************************************************************)
(* PieceTable: creation, len, locate                                       *)
(***************************************************************************)
PieceTable_new(file) ==
    IF Len(file) # 0 THEN <<Piece("Original", 0, Len(file))>> ELSE <<>>

AnyLenPanics(ps) == \E i \in 1..Len(ps) : PieceLenPanics(ps[i])

\* PieceTable::len: the (wrapping) sum of the piece lengths
RECURSIVE PieceTable_len(_)
PieceTable_len(ps) ==
    IF ps = <<>> THEN 0 ELSE PieceLen(Head(ps)) + PieceTable_len(Tail(ps))

RECURSIVE locate_loop(_, _, _)
locate_loop(ps, idx, pos) ==
    IF idx >= Len(ps) THEN [idx |-> Len(ps), offset |-> 0, panic |-> FALSE]
    ELSE LET piece == ps[idx + 1] IN
         IF PieceLenPanics(piece) THEN [idx |-> idx, offset |-> 0, panic |-> TRUE]
         ELSE IF ULe(pos, PieceLen(piece))
              THEN [idx |-> idx, offset |-> pos, panic |-> FALSE]
              ELSE locate_loop(ps, idx + 1, pos - PieceLen(piece))

locate(ps, pos) == locate_loop(ps, 0, pos)

(***************************************************************************)
(* PieceTable: insert                                                      *)
(***************************************************************************)
\* Results of the primitives: st is "ok", "err" (a MathError was returned)
\* or "panic"; pieces is the piece list the call leaves behind.
MergeResult(cont, ps, panic) == [continue |-> cont, pieces |-> ps, panic |-> panic]

\* merge_or_continue without the test that the new range continues the
\* previous piece's range
merge_or_continue_any_range(ps, idx, offset, buf_kind, range) ==
    LET pieces_len == Len(ps)
        first == idx = pieces_len \/ offset = 0
    IN IF ~first /\ PieceLenPanics(ps[idx + 1]) THEN MergeResult(TRUE, ps, TRUE)
       ELSE
       LET prev_idx == IF first THEN idx - 1
                       ELSE IF offset = PieceLen(ps[idx + 1]) THEN idx
                       ELSE -1
       IN IF prev_idx >= 0 /\ prev_idx < pieces_len
             /\ ps[prev_idx + 1].buf_kind = buf_kind
          THEN MergeResult(FALSE,
                   [ps EXCEPT ![prev_idx + 1].range.end = range.end], FALSE)
          ELSE MergeResult(TRUE, ps, FALSE)

\* merge_or_continue that never extends a piece
merge_or_continue_never_merging(ps, idx, offset, buf_kind, range) ==
    LET pieces_len == Len(ps)
        first == idx = pieces_len \/ offset = 0
    IN IF ~first /\ PieceLenPanics(ps[idx + 1]) THEN MergeResult(TRUE, ps, TRUE)
       ELSE MergeResult(TRUE, ps, FALSE)

merge_or_continue(ps, idx, offset, buf_kind, range) ==
    LET pieces_len == Len(ps)
        first == idx = pieces_len \/ offset = 0
    IN IF ~first /\ PieceLenPanics(ps[idx + 1]) THEN MergeResult(TRUE, ps, TRUE)
       ELSE
       LET prev_idx == IF first THEN idx - 1
                       ELSE IF offset = PieceLen(ps[idx + 1]) THEN idx
                       ELSE -1
       IN IF prev_idx >= 0 /\ prev_idx < pieces_len
             /\ ps[prev_idx + 1].buf_kind = buf_kind
             /\ ps[prev_idx + 1].range.end = range.start
          THEN MergeResult(FALSE,
                   [ps EXCEPT ![prev_idx + 1].range.end = range.end], FALSE)
          ELSE MergeResult(TRUE, ps, FALSE)

OpResult(st, ps, removed) == [st |-> st, pieces |-> ps, removed |-> removed]

Splice(ps, idx, new) ==
    SubSeq(ps, 1, idx) \o new \o SubSeq(ps, idx + 2, Len(ps))

insert_no_history(ps0, pos, range, buf_kind) ==
    Bind(locate(ps0, pos), LAMBDA loc :
    IF loc.panic THEN OpResult("panic", ps0, <<>>)
    ELSE
    Bind(merge_or_continue(ps0, loc.idx, loc.offset, buf_kind, range), LAMBDA m :
    LET idx == loc.idx
        offset == loc.offset
        ps == m.pieces
        new_piece == Piece(buf_kind, range.start, range.end)
    IN IF m.panic THEN OpResult("panic", ps0, <<>>)
       ELSE IF ~m.continue THEN OpResult("ok", ps, <<>>)
       ELSE IF idx = Len(ps) THEN OpResult("ok", Append(ps, new_piece), <<>>)
       ELSE IF offset = 0
            THEN OpResult("ok", SubSeq(ps, 1, idx) \o <<new_piece>>
                                 \o SubSeq(ps, idx + 1, Len(ps)), <<>>)
       ELSE LET piece == ps[idx + 1] IN
            IF PieceLenPanics(piece) THEN OpResult("panic", ps, <<>>)
            ELSE IF offset = PieceLen(piece)
                 THEN OpResult("ok", SubSeq(ps, 1, idx + 1) \o <<new_piece>>
                                      \o SubSeq(ps, idx + 2, Len(ps)), <<>>)
            ELSE IF AddOverflows(piece.range.start, offset)
                 THEN OpResult("err", ps, <<>>)
            ELSE LET start_plus_offset == piece.range.start + offset IN
                 IF ULt(piece.range.end, start_plus_offset)
                 THEN OpResult("err", ps, <<>>)
                 ELSE OpResult("ok",
                        Splice(ps, idx,
                          << Piece(piece.buf_kind, piece.range.start, start_plus_offset),
                             new_piece,
                             Piece(piece.buf_kind, start_plus_offset, piece.range.end) >>),
                        <<>>)))

(***************************************************************************)
(* PieceTable: delete                                                      *)
(***************************************************************************)
\* One pass of the `while len > 0 && idx < pieces_len` loop per call.
RECURSIVE delete_loop(_, _, _, _, _, _)
delete_loop(ps, idx, offset, length, removed, pieces_len) ==
    IF ~(length # 0 /\ idx < pieces_len) THEN OpResult("ok", ps, removed)
    ELSE
    LET piece == ps[idx + 1] IN
    IF PieceLenPanics(piece) THEN OpResult("panic", ps, removed)
    ELSE
    LET piece_len == PieceLen(piece)
        delete_start == offset
        delete_end == UMin(offset + length, piece_len)
        remove_len == delete_end - delete_start
    IN
    IF overflow_checks /\ (AddOverflows(offset, length) \/ SubOverflows(delete_end, delete_start))
    THEN OpResult("panic", ps, removed)
    ELSE IF delete_start = 0 /\ delete_end = piece_len
    THEN \* full delete: drop the piece
         delete_loop(Splice(ps, idx, <<>>), idx, 0, length - remove_len,
                     Append(removed, piece), pieces_len - 1)
    ELSE IF delete_start = 0
    THEN \* shrink the piece from the left
         IF overflow_checks /\ AddOverflows(piece.range.start, remove_len)
         THEN OpResult("panic", ps, removed)
         ELSE delete_loop(
                 [ps EXCEPT ![idx + 1].range.start = piece.range.start + remove_len],
                 idx, 0, length - remove_len,
                 Append(removed, Piece(piece.buf_kind, piece.range.start,
                                       piece.range.start + remove_len)),
                 pieces_len)
    ELSE IF delete_end = piece_len
    THEN \* shrink the piece from the right
         IF overflow_checks /\ SubOverflows(piece.range.end, remove_len)
         THEN OpResult("panic", ps, removed)
         ELSE IF SubOverflows(piece.range.end, piece.range.end - remove_len)
         THEN OpResult("err", ps, removed)
         ELSE LET new_start == piece.range.end - (piece.range.end - remove_len) IN
              delete_loop(
                 [ps EXCEPT ![idx + 1].range.end = piece.range.end - remove_len],
                 idx + 1, 0, length - remove_len,
                 Append(removed, Piece(piece.buf_kind, new_start, piece.range.end)),
                 pieces_len)
    ELSE \* the deleted range lies strictly inside the piece
         IF AddOverflows(piece.range.start, delete_start)
         THEN OpResult("err", ps, removed)
         ELSE LET new_start_removed == piece.range.start + delete_start IN
              delete_loop(
                 Splice(ps, idx,
                    << Piece(piece.buf_kind, piece.range.start, delete_start),
                       Piece(piece.buf_kind, delete_end, piece.range.end) >>),
                 idx + 1, 0, length - remove_len,
                 Append(removed, Piece(piece.buf_kind, new_start_removed, delete_end)),
                 pieces_len - 1)

delete_no_history(ps, pos, length) ==
    Bind(locate(ps, pos), LAMBDA loc :
    IF loc.panic THEN OpResult("panic", ps, <<>>)
    ELSE delete_loop(ps, loc.idx, loc.offset, length, <<>>, Len(ps)))

(***************************************************************************)
(* PieceTable: the public mutations.  A table value t carries buf, pieces, *)
(* undo_stack and redo_stack; the result adds st.                          *)
(***************************************************************************)
Table(b, ps, us, rs) == [buf |-> b, pieces |-> ps, undo_stack |-> us, redo_stack |-> rs]
TableResult(st, t) ==
    [st |-> st, buf |-> t.buf, pieces |-> t.pieces,
     undo_stack |-> t.undo_stack, redo_stack |-> t.redo_stack]

\* PieceTable::insert that extends the add buffer before it checks pos
PieceTable_insert_extending_first(t, pos, bytes) ==
    IF bytes = <<>> THEN TableResult("ok", t)
    ELSE IF AnyLenPanics(t.pieces) THEN TableResult("panic", t)
    ELSE IF ULt(PieceTable_len(t.pieces), pos)
    THEN TableResult("err", [t EXCEPT !.buf = @ \o bytes])
    ELSE
    LET start == Len(t.buf)
        end == start + Len(bytes)
        grown == t.buf \o bytes
    IN
    Bind(insert_no_history(t.pieces, pos, Range(start, end), "Add"), LAMBDA r :
    IF r.st = "ok"
    THEN TableResult("ok",
            Table(grown, r.pieces,
                  Append(t.undo_stack, EditInsert(pos, Range(start, end))), <<>>))
    ELSE TableResult(r.st, Table(grown, r.pieces, t.undo_stack, t.redo_stack)))

PieceTable_insert(t, pos, bytes) ==
    IF bytes = <<>> THEN TableResult("ok", t)
    ELSE IF AnyLenPanics(t.pieces) THEN TableResult("panic", t)
    ELSE IF ULt(PieceTable_len(t.pieces), pos) THEN TableResult("err", t)
    ELSE
    LET start == Len(t.buf)
        end == start + Len(bytes)
        grown == t.buf \o bytes
    IN
    Bind(insert_no_history(t.pieces, pos, Range(start, end), "Add"), LAMBDA r :
    IF r.st = "ok"
    THEN TableResult("ok",
            Table(grown, r.pieces,
                  Append(t.undo_stack, EditInsert(pos, Range(start, end))), <<>>))
    ELSE TableResult(r.st, Table(grown, r.pieces, t.undo_stack, t.redo_stack)))

PieceTable_delete(t, pos, length) ==
    IF length = 0 THEN TableResult("ok", t)
    ELSE
    Bind(delete_no_history(t.pieces, pos, length), LAMBDA r :
    IF r.st = "ok"
    THEN TableResult("ok",
            Table(t.buf, r.pieces,
                  Append(t.undo_stack, EditDelete(pos, length, r.removed)), <<>>))
    ELSE TableResult(r.st, Table(t.buf, r.pieces, t.undo_stack, t.redo_stack)))

\* The loop of undo() over the removed pieces of a Delete entry.
RECURSIVE reinsert_removed(_, _, _)
reinsert_removed(ps, removed, delete_position) ==
    IF removed = <<>> THEN OpResult("ok", ps, <<>>)
    ELSE
    LET piece == Head(removed) IN
    Bind(insert_no_history(ps, delete_position, piece.range, piece.buf_kind),
         LAMBDA r :
    IF r.st # "ok" THEN r
    ELSE IF PieceLenPanics(piece) THEN OpResult("panic", r.pieces, <<>>)
    ELSE IF overflow_checks /\ AddOverflows(delete_position, PieceLen(piece))
         THEN OpResult("panic", r.pieces, <<>>)
    ELSE reinsert_removed(r.pieces, Tail(removed), delete_position + PieceLen(piece)))

\* undo that also drops an undone insert's bytes from the add buffer
PieceTable_undo_truncating_buf(t) ==
    IF t.undo_stack = <<>> THEN TableResult("ok", t)
    ELSE
    LET cmd == t.undo_stack[Len(t.undo_stack)]
        popped == SubSeq(t.undo_stack, 1, Len(t.undo_stack) - 1)
    IN IF cmd.kind = "Insert"
          /\ overflow_checks /\ SubOverflows(cmd.range.end, cmd.range.start)
       THEN TableResult("panic", t)
       ELSE
       Bind(IF cmd.kind = "Insert"
            THEN delete_no_history(t.pieces, cmd.pos, cmd.range.end - cmd.range.start)
            ELSE reinsert_removed(t.pieces, cmd.removed, cmd.pos), LAMBDA r :
       IF r.st = "ok"
       THEN TableResult("ok", Table(IF cmd.kind = "Insert"
                                    THEN SubSeq(t.buf, 1, cmd.range.start) ELSE t.buf,
                                    r.pieces, popped, Append(t.redo_stack, cmd)))
       ELSE TableResult(r.st, Table(t.buf, r.pieces, popped, t.redo_stack)))

PieceTable_undo(t) ==
    IF t.undo_stack = <<>> THEN TableResult("ok", t)
    ELSE
    LET cmd == t.undo_stack[Len(t.undo_stack)]
        popped == SubSeq(t.undo_stack, 1, Len(t.undo_stack) - 1)
    IN IF cmd.kind = "Insert"
          /\ overflow_checks /\ SubOverflows(cmd.range.end, cmd.range.start)
       THEN TableResult("panic", t)
       ELSE
       Bind(IF cmd.kind = "Insert"
            THEN delete_no_history(t.pieces, cmd.pos, cmd.range.end - cmd.range.start)
            ELSE reinsert_removed(t.pieces, cmd.removed, cmd.pos), LAMBDA r :
       IF r.st = "ok"
       THEN TableResult("ok", Table(t.buf, r.pieces, popped,
                                    Append(t.redo_stack, cmd)))
       ELSE TableResult(r.st, Table(t.buf, r.pieces, popped, t.redo_stack)))

PieceTable_redo(t) ==
    IF t.redo_stack = <<>> THEN TableResult("ok", t)
    ELSE
    LET cmd == t.redo_stack[Len(t.redo_stack)]
        popped == SubSeq(t.redo_stack, 1, Len(t.redo_stack) - 1)
    IN IF cmd.kind = "Insert"
       THEN Bind(insert_no_history(t.pieces, cmd.pos, cmd.range, "Add"), LAMBDA r :
            IF r.st = "ok"
            THEN TableResult("ok", Table(t.buf, r.pieces,
                                         Append(t.undo_stack, cmd), popped))
            ELSE TableResult(r.st, Table(t.buf, r.pieces, t.undo_stack, popped)))
       ELSE Bind(delete_no_history(t.pieces, cmd.pos, cmd.len), LAMBDA r :
            IF r.st = "ok"
            THEN TableResult("ok", Table(t.buf, r.pieces,
                     Append(t.undo_stack, EditDelete(cmd.pos, cmd.len, r.removed)),
                     popped))
            ELSE TableResult(r.st, Table(t.buf, r.pieces, t.undo_stack, popped)))

(***************************************************************************)
(* PieceTable: reset after a save                                          *)
(***************************************************************************)
\* reset_to_mmap that keeps the journals
PieceTable_reset_to_mmap_keeping_journals(t, new_mmap) ==
    LET file_size == Len(new_mmap) IN
    Table(<<>>, <<Piece("Original", 0, file_size)>>, t.undo_stack, t.redo_stack)

\* reset_to_mmap: new_mmap becomes the original file of the table that is
\* returned, the add buffer and both journals are cleared and the pieces
\* collapse to one Original piece over the whole file
PieceTable_reset_to_mmap(t, new_mmap) ==
    LET file_size == Len(new_mmap) IN
    Table(<<>>, <<Piece("Original", 0, file_size)>>, <<>>, <<>>)

(***************************************************************************)
(* PieceTable: reading                                                     *)
(***************************************************************************)
BytesResult(st, bytes) == [st |-> st, bytes |-> bytes]

\* &self.buf[s..e]: panics unless s <= e <= buf.len()
BufSlice(b, s, e) ==
    IF s < 0 \/ e < 0 \/ s > e \/ e > Len(b) THEN BytesResult("panic", <<>>)
    ELSE BytesResult("ok", SubSeq(b, s + 1, e))

\* SliceOfWithStartEnd::slice_of(piece, start, end)
slice_of(file, b, piece, start, end) ==
    IF piece.buf_kind = "Original"
    THEN BytesResult("ok", get_bytes_clamped(file, start, end))
    ELSE BufSlice(b, start, end)

RECURSIVE get_bytes_loop(_, _, _, _, _, _)
get_bytes_loop(file, b, ps, pos, length, res) ==
    IF ps = <<>> THEN BytesResult("ok", res)
    ELSE
    LET piece == Head(ps) IN
    IF PieceLenPanics(piece) THEN BytesResult("panic", res)
    ELSE
    LET piece_len == PieceLen(piece) IN
    IF ~ULt(pos, piece_len)
    THEN get_bytes_loop(file, b, Tail(ps), pos - piece_len, length, res)
    ELSE
    LET start == piece.range.start + pos
        take == UMin(piece_len - pos, length)
        sl == slice_of(file, b, piece, start, start + take)
    IN IF overflow_checks /\ (AddOverflows(piece.range.start, pos)
                              \/ AddOverflows(start, take))
       THEN BytesResult("panic", res)
       ELSE IF sl.st # "ok" THEN BytesResult(sl.st, res)
       ELSE IF length - take = 0 THEN BytesResult("ok", res \o sl.bytes)
       ELSE get_bytes_loop(file, b, Tail(ps), 0, length - take, res \o sl.bytes)

get_bytes_at(file, b, ps, pos, length) == get_bytes_loop(file, b, ps, pos, length, <<>>)

\* The concatenation of the chunks iter_bytes() yields
RECURSIVE iter_bytes(_, _, _)
iter_bytes(file, b, ps) ==
    IF ps = <<>> THEN BytesResult("ok", <<>>)
    ELSE LET piece == Head(ps)
             g == get_bytes_exact(file, piece.range.start, PieceLen(piece))
             \* one chunk of the iterator
             c == IF PieceLenPanics(piece) THEN BytesResult("panic", <<>>)
                  ELSE IF piece.buf_kind # "Original"
                  THEN BufSlice(b, piece.range.start, piece.range.end)
                  ELSE IF ~g.some THEN BytesResult("panic", <<>>)
                  ELSE BytesResult("ok", g.bytes)
             rest == iter_bytes(file, b, Tail(ps))
         IN IF c.st # "ok" \/ rest.st # "ok" THEN BytesResult("panic", <<>>)
            ELSE BytesResult("ok", c.bytes \o rest.bytes)

(***************************************************************************)
(* Line index: nodes and bulk construction.                                *)
(***************************************************************************)
MAX_CHILDREN == 16

LineSummary(lc, bl) == [line_count |-> lc, byte_len |-> bl]
LineSummary_add(a, b) ==
    LineSummary(a.line_count + b.line_count, a.byte_len + b.byte_len)

LeafNode(summary, lens) ==
    [leaf |-> TRUE, summary |-> summary, line_lengths |-> lens, children |-> <<>>]
InternalNode(summary, ch) ==
    [leaf |-> FALSE, summary |-> summary, line_lengths |-> <<>>, children |-> ch]
LeafNode_default == LeafNode(LineSummary(1, 0), <<0>>)

\* The sum of the children's summaries, folded from acc
RECURSIVE FoldSummary(_, _)
FoldSummary(acc, chunk) ==
    IF chunk = <<>> THEN acc
    ELSE FoldSummary(LineSummary_add(acc, Head(chunk).summary), Tail(chunk))

\* memchr_iter(b'\n', bytes): the 0-based positions of the newlines at or after i
RECURSIVE memchr_iter(_, _)
memchr_iter(bytes, i) ==
    IF i >= Len(bytes) THEN <<>>
    ELSE IF bytes[i + 1] = NL THEN <<i>> \o memchr_iter(bytes, i + 1)
    ELSE memchr_iter(bytes, i + 1)

RECURSIVE build_leaves_loop(_, _, _, _, _)
build_leaves_loop(nls, last_position, lens, summary, leaves) ==
    IF nls = <<>>
    THEN [last_position |-> last_position, lens |-> lens, summary |-> summary,
          leaves |-> leaves]
    ELSE LET next_line_position == Head(nls) + 1
             length == next_line_position - last_position
             lens1 == Append(lens, length)
             summary1 == LineSummary(summary.line_count + 1, summary.byte_len + length)
         IN IF Len(lens1) = MAX_CHILDREN
            THEN build_leaves_loop(Tail(nls), next_line_position, <<>>,
                                   LineSummary(0, 0),
                                   Append(leaves, LeafNode(summary1, lens1)))
            ELSE build_leaves_loop(Tail(nls), next_line_position, lens1, summary1,
                                   leaves)

\* build_leaves that pushes the trailing entry also when nothing follows the
\* last newline
build_leaves_with_trailing_entry(bytes) ==
    LET l == build_leaves_loop(memchr_iter(bytes, 0), 0, <<>>, LineSummary(0, 0), <<>>)
        bytes_len == Len(bytes)
        tail_len == bytes_len - l.last_position
        lens == Append(l.lens, tail_len)
        summary == LineSummary(l.summary.line_count + 1,
                               l.summary.byte_len + tail_len)
    IN Append(l.leaves, LeafNode(summary, lens))

build_leaves(bytes) ==
    LET l == build_leaves_loop(memchr_iter(bytes, 0), 0, <<>>, LineSummary(0, 0), <<>>)
        bytes_len == Len(bytes)
        tail_len == bytes_len - l.last_position
        lens == IF l.last_position < bytes_len THEN Append(l.lens, tail_len)
                ELSE l.lens
        summary == IF l.last_position < bytes_len
                   THEN LineSummary(l.summary.line_count + 1,
                                    l.summary.byte_len + tail_len)
                   ELSE l.summary
    IN IF lens # <<>> THEN Append(l.leaves, LeafNode(summary, lens)) ELSE l.leaves

RECURSIVE build_level(_)
build_level(level) ==
    IF level = <<>> THEN <<>>
    ELSE LET n == IF Len(level) < MAX_CHILDREN THEN Len(level) ELSE MAX_CHILDREN
             chunk == SubSeq(level, 1, n)
         IN <<InternalNode(FoldSummary(LineSummary(0, 0), chunk), chunk)>>
            \o build_level(SubSeq(level, n + 1, Len(level)))

RECURSIVE build_tree(_)
build_tree(level) ==
    IF Len(level) > 1 THEN build_tree(build_level(level)) ELSE level[1]

NoCache == [some |-> FALSE, line_idx |-> 0, byte_offset |-> 0]
LineIndex(r, c) == [root |-> r, cache |-> c]

BTreeLineIndex_new(bytes) ==
    IF bytes = <<>> THEN LineIndex(LeafNode_default, NoCache)
    ELSE LET leaves == build_leaves(bytes) IN
         LineIndex(IF leaves = <<>> THEN LeafNode_default ELSE build_tree(leaves),
                   NoCache)

(***************************************************************************)
(* Line index: insertion.                                                  *)
(***************************************************************************)
NoNode == [some |-> FALSE, node |-> LeafNode_default]
\* Result<Option<Node>, MathError> together with the node as the call left it
AddResult(st, node, split) == [st |-> st, node |-> node, split |-> split]

default_if_empty(lens) == IF lens = <<>> THEN <<0>> ELSE lens

\* Iterator::position with the closure that consumes abs_byte_offset
RECURSIVE position_loop(_, _, _)
position_loop(lens, i, abs) ==
    IF i >= Len(lens) THEN [found |-> FALSE, idx |-> i, abs |-> abs]
    ELSE IF ULt(abs, lens[i + 1]) THEN [found |-> TRUE, idx |-> i, abs |-> abs]
    ELSE position_loop(lens, i + 1, abs - lens[i + 1])

\* The lengths of the newline-terminated lines of bytes
RECURSIVE new_lines_of(_, _)
new_lines_of(nls, last_line_idx) ==
    IF nls = <<>> THEN <<>>
    ELSE <<Head(nls) + 1 - last_line_idx>> \o new_lines_of(Tail(nls), Head(nls) + 1)

LeafNode_split_if_needed(node) ==
    LET line_len == Len(node.line_lengths) IN
    IF line_len <= MAX_CHILDREN THEN AddResult("ok", node, NoNode)
    ELSE LET mid == line_len \div 2
             left == SubSeq(node.line_lengths, 1, mid)
             right == SubSeq(node.line_lengths, mid + 1, line_len)
         IN AddResult("ok",
                LeafNode(LineSummary(Len(left), SeqSum(left)), left),
                [some |-> TRUE,
                 node |-> LeafNode(LineSummary(Len(right), SeqSum(right)), right)])

LeafNode_add_child(node, abs_byte_offset, bytes) ==
    Bind(default_if_empty(node.line_lengths), LAMBDA lens :
    Bind(position_loop(lens, 0, abs_byte_offset), LAMBDA p :
    Bind(memchr_iter(bytes, 0), LAMBDA nls :
    Bind(new_lines_of(nls, 0), LAMBDA new_lines :
    LET bytes_len == Len(bytes)
        target_idx == IF p.found THEN p.idx ELSE Len(lens) - 1
        old_line_len == lens[target_idx + 1]
        line_prefix_len == p.abs
        line_suffix_len == old_line_len - p.abs
    IN IF overflow_checks /\ SubOverflows(old_line_len, p.abs)
       THEN AddResult("panic", node, NoNode)
       ELSE IF new_lines = <<>>
       THEN IF AddOverflows(node.summary.byte_len, bytes_len)
            THEN AddResult("err",
                   [node EXCEPT !.line_lengths =
                        [lens EXCEPT ![target_idx + 1] = @ + bytes_len]], NoNode)
            ELSE LeafNode_split_if_needed(
                   [node EXCEPT !.line_lengths =
                                   [lens EXCEPT ![target_idx + 1] = @ + bytes_len],
                                !.summary.byte_len = @ + bytes_len])
       ELSE LET last_line_idx == nls[Len(nls)] + 1
                remaining_text_len == bytes_len - last_line_idx
                final_new_line_len == remaining_text_len + line_suffix_len
                to_insert == Tail(new_lines) \o <<final_new_line_len>>
                lens1 == SubSeq(lens, 1, target_idx)
                         \o <<line_prefix_len + new_lines[1]>>
                         \o to_insert
                         \o SubSeq(lens, target_idx + 2, Len(lens))
            IN IF AddOverflows(line_prefix_len, new_lines[1])
               THEN AddResult("err", [node EXCEPT !.line_lengths = lens], NoNode)
               ELSE IF overflow_checks
                       /\ AddOverflows(remaining_text_len, line_suffix_len)
               THEN AddResult("panic", node, NoNode)
               ELSE IF AddOverflows(node.summary.byte_len, bytes_len)
               THEN AddResult("err",
                      [node EXCEPT !.line_lengths = lens1,
                                   !.summary.line_count = Len(lens1)], NoNode)
               ELSE LeafNode_split_if_needed(
                      [node EXCEPT !.line_lengths = lens1,
                                   !.summary.line_count = Len(lens1),
                                   !.summary.byte_len = @ + bytes_len])))))

InternalNode_split_if_needed(node) ==
    LET children_len == Len(node.children) IN
    IF children_len <= MAX_CHILDREN THEN AddResult("ok", node, NoNode)
    ELSE LET mid == children_len \div 2
             left == SubSeq(node.children, 1, mid)
             right == SubSeq(node.children, mid + 1, children_len)
         IN AddResult("ok",
                InternalNode(FoldSummary(LineSummary(0, 0), left), left),
                [some |-> TRUE,
                 node |-> InternalNode(FoldSummary(LineSummary(0, 0), right), right)])

RECURSIVE Node_add_child(_, _, _)
RECURSIVE InternalNode_add_child_loop(_, _, _, _)
\* The for loop of InternalNode::add_child from child idx on; yields the children
InternalNode_add_child_loop(children, idx, abs, bytes) ==
    IF idx >= Len(children) THEN [st |-> "ok", children |-> children]
    ELSE LET child_byte_len == children[idx + 1].summary.byte_len IN
         IF ~ULe(abs, child_byte_len)
         THEN InternalNode_add_child_loop(children, idx + 1,
                                          abs - child_byte_len, bytes)
         ELSE
         Bind(Node_add_child(children[idx + 1], abs, bytes), LAMBDA r :
         LET children1 == [children EXCEPT ![idx + 1] = r.node] IN
         IF r.st # "ok" THEN [st |-> r.st, children |-> children1]
         ELSE IF r.split.some
         THEN [st |-> "ok",
               children |-> SubSeq(children1, 1, idx + 1) \o <<r.split.node>>
                            \o SubSeq(children1, idx + 2, Len(children1))]
         ELSE IF overflow_checks /\ SubOverflows(abs, child_byte_len)
         THEN [st |-> "panic", children |-> children1]
         ELSE InternalNode_add_child_loop(children1, idx + 1,
                                          abs - child_byte_len, bytes))

InternalNode_add_child(node, abs_byte_offset, bytes) ==
    Bind(InternalNode_add_child_loop(node.children, 0, abs_byte_offset, bytes),
         LAMBDA l :
    IF l.st # "ok" THEN AddResult(l.st, [node EXCEPT !.children = l.children], NoNode)
    ELSE InternalNode_split_if_needed(
           [node EXCEPT !.children = l.children,
                        !.summary.byte_len = @ + Len(bytes),
                        !.summary.line_count =
                            FoldSummary(LineSummary(0, 0), l.children).line_count]))

Node_add_child(node, abs_byte_offset, bytes) ==
    IF node.leaf THEN LeafNode_add_child(node, abs_byte_offset, bytes)
    ELSE InternalNode_add_child(node, abs_byte_offset, bytes)

\* Result<(), MathError> together with the index as the call left it
IndexResult(st, li) == [st |-> st, root |-> li.root, cache |-> li.cache]

BTreeLineIndex_insert(li, byte_pos, bytes) ==
    IF bytes = <<>> THEN IndexResult("ok", li)
    ELSE Bind(Node_add_child(li.root, byte_pos, bytes), LAMBDA r :
         IF r.st # "ok" THEN IndexResult(r.st, LineIndex(r.node, li.cache))
         ELSE IF r.split.some
         THEN IndexResult("ok",
                LineIndex(InternalNode(
                            LineSummary_add(r.node.summary, r.split.node.summary),
                            <<r.node, r.split.node>>), NoCache))
         ELSE IndexResult("ok", LineIndex(r.node, NoCache)))

(***************************************************************************)
(* Line index: lookups.                                                    *)
(***************************************************************************)
None == [st |-> "none", val |-> 0]
Some(v) == [st |-> "some", val |-> v]

LeafNode_get_line_length_at(node, line_idx) ==
    IF line_idx < Len(node.line_lengths) THEN Some(node.line_lengths[line_idx + 1])
    ELSE None

LeafNode_line_idx_to_abs_idx(node, line_idx) ==
    IF line_idx >= Len(node.line_lengths) THEN None
    ELSE Some(SeqSum(SubSeq(node.line_lengths, 1, line_idx)))

LeafNode_abs_idx_to_line_idx(node, abs_idx) ==
    Bind(position_loop(node.line_lengths, 0, abs_idx), LAMBDA p :
    IF p.found THEN Some(p.idx) ELSE None)

RECURSIVE Node_get_line_length_at(_, _)
RECURSIVE get_line_length_loop(_, _)
get_line_length_loop(children, line_idx) ==
    IF children = <<>> THEN [st |-> "panic", val |-> 0]
    ELSE LET line_count == Head(children).summary.line_count IN
         IF line_idx < line_count THEN Node_get_line_length_at(Head(children), line_idx)
         ELSE get_line_length_loop(Tail(children), line_idx - line_count)

InternalNode_get_line_length_at(node, line_idx) ==
    IF line_idx >= node.summary.line_count THEN None
    ELSE get_line_length_loop(node.children, line_idx)

Node_get_line_length_at(node, line_idx) ==
    IF node.leaf THEN LeafNode_get_line_length_at(node, line_idx)
    ELSE InternalNode_get_line_length_at(node, line_idx)

RECURSIVE Node_line_idx_to_abs_idx(_, _)
RECURSIVE line_idx_to_abs_idx_loop(_, _, _)
line_idx_to_abs_idx_loop(children, line_idx, abs_idx) ==
    IF children = <<>> THEN Some(abs_idx)
    ELSE LET child == Head(children) IN
         IF line_idx < child.summary.line_count
         THEN Bind(Node_line_idx_to_abs_idx(child, line_idx), LAMBDA r :
              IF r.st = "some" THEN Some(abs_idx + r.val) ELSE Some(abs_idx))
         ELSE line_idx_to_abs_idx_loop(Tail(children),
                                       line_idx - child.summary.line_count,
                                       abs_idx + child.summary.byte_len)

InternalNode_line_idx_to_abs_idx(node, line_idx) ==
    IF line_idx >= node.summary.line_count THEN None
    ELSE line_idx_to_abs_idx_loop(node.children, line_idx, 0)

Node_line_idx_to_abs_idx(node, line_idx) ==
    IF node.leaf THEN LeafNode_line_idx_to_abs_idx(node, line_idx)
    ELSE InternalNode_line_idx_to_abs_idx(node, line_idx)

RECURSIVE Node_abs_idx_to_line_idx(_, _)
RECURSIVE abs_idx_to_line_idx_loop(_, _, _)
abs_idx_to_line_idx_loop(children, abs_idx, line_idx) ==
    IF children = <<>> THEN Some(line_idx)
    ELSE LET child == Head(children) IN
         IF ULt(abs_idx, child.summary.byte_len)
         THEN Bind(Node_abs_idx_to_line_idx(child, abs_idx), LAMBDA r :
              IF r.st = "some" THEN Some(line_idx + r.val) ELSE Some(line_idx))
         ELSE abs_idx_to_line_idx_loop(Tail(children),
                                       abs_idx - child.summary.byte_len,
                                       line_idx + child.summary.line_count)

InternalNode_abs_idx_to_line_idx(node, abs_idx) ==
    IF ~ULt(abs_idx, node.summary.byte_len) THEN None
    ELSE abs_idx_to_line_idx_loop(node.children, abs_idx, 0)

Node_abs_idx_to_line_idx(node, abs_idx) ==
    IF node.leaf THEN LeafNode_abs_idx_to_line_idx(node, abs_idx)
    ELSE InternalNode_abs_idx_to_line_idx(node, abs_idx)

BTreeLineIndex_get_line_length_at(li, line_idx) ==
    Node_get_line_length_at(li.root, line_idx)

\* The two cached lookups yield the answer and the cache they leave
Lookup(res, c) == [res |-> res, cache |-> c]

BTreeLineIndex_line_idx_to_abs_idx(li, line_idx, bust_cache) ==
    IF ~bust_cache /\ li.cache.some /\ li.cache.line_idx = line_idx
    THEN Lookup(Some(li.cache.byte_offset), li.cache)
    ELSE Bind(Node_line_idx_to_abs_idx(li.root, line_idx), LAMBDA result :
         IF result.st # "some" THEN Lookup(result, li.cache)
         ELSE Lookup(result, [some |-> TRUE, line_idx |-> line_idx,
                              byte_offset |-> result.val]))

BTreeLineIndex_abs_idx_to_line_idx(li, abs_idx, bust_cache) ==
    IF ~bust_cache /\ li.cache.some /\ li.cache.byte_offset = abs_idx
    THEN Lookup(Some(li.cache.line_idx), li.cache)
    ELSE Bind(Node_abs_idx_to_line_idx(li.root, abs_idx), LAMBDA result :
         IF result.st # "some" THEN Lookup(result, li.cache)
         ELSE Lookup(result, [some |-> TRUE, line_idx |-> result.val,
                              byte_offset |-> abs_idx]))

(***************************************************************************)
(* Line index: the line range iterator.  A stack entry pairs a node with   *)
(* the index of its next child or line to visit.                           *)
(***************************************************************************)
Frame(node, idx) == [node |-> node, idx |-> idx]

Descent(target_line, current_abs_idx, stack) ==
    [target_line |-> target_line, current_abs_idx |-> current_abs_idx, stack |-> stack]

LeafNode_lines(node, d) ==
    LET idx == IF d.target_line < Len(node.line_lengths)
               THEN d.target_line ELSE Len(node.line_lengths)
        sum == SeqSum(SubSeq(node.line_lengths, 1, idx))
    IN Descent(d.target_line, d.current_abs_idx + sum, Append(d.stack, Frame(node, idx)))

RECURSIVE Node_lines(_, _)
RECURSIVE InternalNode_lines_loop(_, _, _)
InternalNode_lines_loop(node, i, d) ==
    IF i >= Len(node.children)
    THEN Node_lines(node.children[Len(node.children)],
                    Descent(d.target_line, d.current_abs_idx,
                            Append(d.stack, Frame(node, Len(node.children)))))
    ELSE LET child == node.children[i + 1]
             child_line_count == child.summary.line_count
         IN IF d.target_line < child_line_count
            THEN Node_lines(child, Descent(d.target_line, d.current_abs_idx,
                                           Append(d.stack, Frame(node, i))))
            ELSE InternalNode_lines_loop(node, i + 1,
                     Descent(d.target_line - child_line_count,
                             d.current_abs_idx + child.summary.byte_len, d.stack))

InternalNode_lines(node, d) == InternalNode_lines_loop(node, 0, d)

Node_lines(node, d) ==
    IF node.leaf THEN LeafNode_lines(node, d) ELSE InternalNode_lines(node, d)

LineRangeIter(stack, current_line_idx, end_line_idx, current_abs_idx) ==
    [stack |-> stack, current_line_idx |-> current_line_idx,
     end_line_idx |-> end_line_idx, current_abs_idx |-> current_abs_idx]

BTreeLineIndex_lines(li, start_line, end_line) ==
    Bind(Node_lines(li.root, Descent(start_line, 0, <<>>)), LAMBDA d :
    LineRangeIter(d.stack, d.target_line, end_line, d.current_abs_idx))

\* The inner loop of next: the length of the next line and the stack left,
\* or no line once the stack has run empty
RECURSIVE next_loop(_)
next_loop(stack) ==
    IF stack = <<>> THEN [found |-> FALSE, line_len |-> 0, stack |-> stack]
    ELSE LET n == Len(stack)
             node == stack[n].node
             idx == stack[n].idx
         IN IF node.leaf /\ idx < Len(node.line_lengths)
            THEN [found |-> TRUE, line_len |-> node.line_lengths[idx + 1],
                  stack |-> [stack EXCEPT ![n].idx = idx + 1]]
            ELSE IF ~node.leaf /\ idx < Len(node.children)
            THEN next_loop(Append(stack, Frame(node.children[idx + 1], 0)))
            ELSE LET popped == SubSeq(stack, 1, n - 1) IN
                 next_loop(IF popped = <<>> THEN popped
                           ELSE [popped EXCEPT ![n - 1].idx = @ + 1])

Item(i, start, end) == [line |-> i, start |-> start, end |-> end]

LineRangeIter_next(it) ==
    IF it.current_line_idx >= it.end_line_idx \/ it.stack = <<>>
    THEN [item |-> None, it |-> it]
    ELSE Bind(next_loop(it.stack), LAMBDA l :
         IF ~l.found THEN [item |-> None, it |-> [it EXCEPT !.stack = l.stack]]
         ELSE [item |-> Some(Item(it.current_line_idx, it.current_abs_idx,
                                  it.current_abs_idx + l.line_len)),
               it |-> LineRangeIter(l.stack, it.current_line_idx + 1, it.end_line_idx,
                                    it.current_abs_idx + l.line_len)])

\* The items an iterator yields until its first None
RECURSIVE collect(_)
collect(it) ==
    Bind(LineRangeIter_next(it), LAMBDA n :
    IF n.item.st # "some" THEN <<>> ELSE <<n.item.val>> \o collect(n.it))

(***************************************************************************)
(* Line index: deletion.                                                   *)
(***************************************************************************)
\* Result<i64, MathError> together with the node as the call left it
SetResult(st, node, diff) == [st |-> st, node |-> node, diff |-> diff]

LeafNode_set_line_length(node, target_line_idx, new_len) ==
    IF target_line_idx >= Len(node.line_lengths) THEN SetResult("err", node, 0)
    ELSE IF new_len < 0 \/ node.line_lengths[target_line_idx + 1] < 0
    THEN SetResult("err", node, 0)
    ELSE LET diff == new_len - node.line_lengths[target_line_idx + 1]
             node1 == [node EXCEPT !.line_lengths[target_line_idx + 1] = new_len]
            \* u64::checked_add_signed fails when the sum leaves the u64 range
         IN IF node.summary.byte_len >= 0 /\ node.summary.byte_len + diff < 0
            THEN SetResult("err", node1, diff)
            ELSE SetResult("ok", [node1 EXCEPT !.summary.byte_len = @ + diff], diff)

RECURSIVE Node_set_line_length(_, _, _)
RECURSIVE set_line_length_loop(_, _, _, _)
\* The for loop of InternalNode::set_line_length; yields the children and the diff
set_line_length_loop(children, idx, target_line_idx, new_len) ==
    IF idx >= Len(children) THEN [st |-> "ok", children |-> children, diff |-> 0]
    ELSE LET child_lines == children[idx + 1].summary.line_count IN
         IF target_line_idx < child_lines
         THEN Bind(Node_set_line_length(children[idx + 1], target_line_idx, new_len),
                   LAMBDA r :
              [st |-> r.st, children |-> [children EXCEPT ![idx + 1] = r.node],
               diff |-> r.diff])
         ELSE set_line_length_loop(children, idx + 1,
                                   target_line_idx - child_lines, new_len)

InternalNode_set_line_length(node, target_line_idx, new_len) ==
    Bind(set_line_length_loop(node.children, 0, target_line_idx, new_len),
         LAMBDA l :
    LET node1 == [node EXCEPT !.children = l.children]
    IN IF l.st # "ok" THEN SetResult(l.st, node1, 0)
       ELSE IF node.summary.byte_len >= 0 /\ node.summary.byte_len + l.diff < 0
       THEN SetResult("err", node1, l.diff)
       ELSE SetResult("ok", [node1 EXCEPT !.summary.byte_len = @ + l.diff], l.diff))

Node_set_line_length(node, target_line_idx, new_len) ==
    IF node.leaf THEN LeafNode_set_line_length(node, target_line_idx, new_len)
    ELSE InternalNode_set_line_length(node, target_line_idx, new_len)

\* Result<u64, MathError> together with the node as the call left it
RemoveResult(st, node, removed) == [st |-> st, node |-> node, removed |-> removed]
Min(a, b) == IF a <= b THEN a ELSE b

LeafNode_remove_line_range(node, start, end) ==
    LET line_len == Len(node.line_lengths)
        remove_start == Min(start, line_len)
        remove_end == Min(end + 1, line_len)
    IN IF remove_start >= remove_end THEN RemoveResult("ok", node, 0)
       ELSE LET removed_bytes_count ==
                    SeqSum(SubSeq(node.line_lengths, remove_start + 1, remove_end))
                lens == SubSeq(node.line_lengths, 1, remove_start)
                        \o SubSeq(node.line_lengths, remove_end + 1, line_len)
                node1 == [node EXCEPT !.line_lengths = lens,
                                      !.summary.line_count = Len(lens)]
            IN IF overflow_checks
                  /\ SubOverflows(node.summary.byte_len, removed_bytes_count)
               THEN RemoveResult("panic", node1, removed_bytes_count)
               ELSE RemoveResult("ok",
                      [node1 EXCEPT !.summary.byte_len = @ - removed_bytes_count],
                      removed_bytes_count)

RECURSIVE Node_remove_line_range(_, _, _)
RECURSIVE remove_line_range_loop(_, _, _, _, _)
\* The while loop of InternalNode::remove_line_range
remove_line_range_loop(children, idx, start, end, bytes_removed) ==
    IF ~(idx < Len(children) /\ start <= end)
    THEN [st |-> "ok", children |-> children, removed |-> bytes_removed]
    ELSE LET child_line_count == children[idx + 1].summary.line_count IN
         IF start >= child_line_count
         THEN remove_line_range_loop(children, idx + 1, start - child_line_count,
                                     end - child_line_count, bytes_removed)
         ELSE
         Bind(Node_remove_line_range(children[idx + 1], start,
                                     Min(end, child_line_count - 1)), LAMBDA r :
         LET emptied == r.node.summary.line_count = 0
             children1 == IF emptied
                          THEN SubSeq(children, 1, idx)
                               \o SubSeq(children, idx + 2, Len(children))
                          ELSE [children EXCEPT ![idx + 1] = r.node]
             idx1 == IF emptied THEN idx ELSE idx + 1
         IN IF r.st # "ok"
            THEN [st |-> r.st,
                  children |-> [children EXCEPT ![idx + 1] = r.node],
                  removed |-> bytes_removed]
            ELSE IF end < child_line_count
            THEN [st |-> "ok", children |-> children1,
                  removed |-> bytes_removed + r.removed]
            ELSE remove_line_range_loop(children1, idx1, 0,
                                        end - child_line_count,
                                        bytes_removed + r.removed))

InternalNode_remove_line_range(node, start, end) ==
    Bind(remove_line_range_loop(node.children, 0, start, end, 0), LAMBDA l :
    LET node1 == [node EXCEPT !.children = l.children]
        node2 == [node1 EXCEPT !.summary.line_count =
                                  FoldSummary(LineSummary(0, 0), l.children).line_count]
    IN IF l.st # "ok" THEN RemoveResult(l.st, node1, l.removed)
       ELSE IF overflow_checks /\ SubOverflows(node.summary.byte_len, l.removed)
       THEN RemoveResult("panic", node2, l.removed)
       ELSE RemoveResult("ok", [node2 EXCEPT !.summary.byte_len = @ - l.removed],
                         l.removed))

Node_remove_line_range(node, start, end) ==
    IF node.leaf THEN LeafNode_remove_line_range(node, start, end)
    ELSE InternalNode_remove_line_range(node, start, end)

BTreeLineIndex_remove(li, abs_idx, length) ==
    IF length = 0 THEN IndexResult("ok", li)
    ELSE IF AddOverflows(abs_idx, length) THEN IndexResult("panic", li)
    ELSE
    LET deletion_end == abs_idx + length IN
    Bind(BTreeLineIndex_abs_idx_to_line_idx(li, abs_idx, TRUE), LAMBDA l1 :
    IF l1.res.st # "some" THEN IndexResult("panic", li)
    ELSE
    Bind(BTreeLineIndex_abs_idx_to_line_idx(LineIndex(li.root, l1.cache),
                                            deletion_end, TRUE), LAMBDA l2 :
    IF l2.res.st # "some" THEN IndexResult("panic", LineIndex(li.root, l1.cache))
    ELSE
    LET start_line == l1.res.val
        end_line == l2.res.val
    IN
    Bind(BTreeLineIndex_line_idx_to_abs_idx(LineIndex(li.root, l2.cache),
                                            start_line, TRUE), LAMBDA l3 :
    IF l3.res.st # "some" THEN IndexResult("panic", LineIndex(li.root, l2.cache))
    ELSE
    Bind(BTreeLineIndex_line_idx_to_abs_idx(LineIndex(li.root, l3.cache),
                                            end_line, TRUE), LAMBDA l4 :
    IF l4.res.st # "some" THEN IndexResult("panic", LineIndex(li.root, l3.cache))
    ELSE
    Bind(BTreeLineIndex_get_line_length_at(li, end_line), LAMBDA l5 :
    LET start_line_byte == l3.res.val
        end_line_byte == l4.res.val
        end_line_len == l5.val
        prefix_len == abs_idx - start_line_byte
        end_line_total_bytes == end_line_byte + end_line_len
        suffix_len == end_line_total_bytes - deletion_end
        new_merged_len == prefix_len + suffix_len
        crashed == LineIndex(li.root, l4.cache)
    IN
    IF l5.st # "some" THEN IndexResult("panic", crashed)
    ELSE IF SubOverflows(abs_idx, start_line_byte) THEN IndexResult("panic", crashed)
    ELSE IF AddOverflows(end_line_byte, end_line_len)
    THEN IndexResult("panic", crashed)
    ELSE IF SubOverflows(end_line_total_bytes, deletion_end)
    THEN IndexResult("panic", crashed)
    ELSE IF AddOverflows(prefix_len, suffix_len) THEN IndexResult("panic", crashed)
    ELSE
    Bind(Node_set_line_length(li.root, start_line, new_merged_len), LAMBDA s :
    IF s.st # "ok" THEN IndexResult(s.st, LineIndex(s.node, l4.cache))
    ELSE IF start_line >= end_line THEN IndexResult("ok", LineIndex(s.node, NoCache))
    ELSE
    Bind(Node_remove_line_range(s.node, start_line + 1, end_line), LAMBDA r :
    IF r.st # "ok" THEN IndexResult(r.st, LineIndex(r.node, l4.cache))
    ELSE IndexResult("ok", LineIndex(r.node, NoCache)))))))))

(***************************************************************************)
(* Cursor.                                                                 *)
(***************************************************************************)
Position(row, col) == [row |-> row, col |-> col]
PosLt(a, b) == a.row < b.row \/ (a.row = b.row /\ a.col < b.col)
PosLe(a, b) == a = b \/ PosLt(a, b)

Cursor_default == [anchor |-> Position(0, 0), head |-> Position(0, 0),
                   preferred_column |-> None]
Cursor_new(row, col) ==
    [anchor |-> Position(row, col), head |-> Position(row, col),
     preferred_column |-> Some(col)]
Cursor_new_selection(anchor, head) ==
    [anchor |-> anchor, head |-> head, preferred_column |-> Some(head.col)]
no_selection(c) == c.anchor = c.head
Cursor_range(c) ==
    IF PosLe(c.anchor, c.head) THEN <<c.anchor, c.head>> ELSE <<c.head, c.anchor>>

(***************************************************************************)
(* TextBuffer: construction and reads.                                     *)
(***************************************************************************)
TextBuffer(t, li, dirty) == [table |-> t, index |-> li, is_dirty |-> dirty]

\* TextBuffer::new_with_text over the bytes the temporary file holds
TextBuffer_new_with_text(bytes) ==
    TextBuffer(Table(<<>>, PieceTable_new(bytes), <<>>, <<>>),
               BTreeLineIndex_new(bytes), FALSE)

line_count(tb) == tb.index.root.summary.line_count
byte_length(tb) == tb.index.root.summary.byte_len

point_to_abs_offset(li, row, col) ==
    Bind(BTreeLineIndex_line_idx_to_abs_idx(li, row, FALSE), LAMBDA l :
    IF l.res.st # "some" THEN Lookup(l.res, l.cache)
    ELSE
    Bind(BTreeLineIndex_get_line_length_at(li, row), LAMBDA line_len :
    IF line_len.st # "some" THEN Lookup(line_len, l.cache)
    ELSE IF ULt(line_len.val, col) THEN Lookup(None, l.cache)
    ELSE Lookup(Some(l.res.val + col), l.cache)))

\* TextBuffer::get_line: Option<String>; PieceTable::get_string keeps every
\* ASCII byte as it is, an Err of it becomes None
TextBuffer_get_line(file, tb, line_idx) ==
    Bind(BTreeLineIndex_get_line_length_at(tb.index, line_idx), LAMBDA line_length :
    IF line_length.st # "some" THEN line_length
    ELSE
    Bind(BTreeLineIndex_line_idx_to_abs_idx(tb.index, line_idx, FALSE).res,
         LAMBDA start_abs_idx :
    IF start_abs_idx.st # "some" THEN start_abs_idx
    ELSE
    Bind(get_bytes_at(file, tb.table.buf, tb.table.pieces,
                      start_abs_idx.val, line_length.val), LAMBDA r :
    IF r.st = "ok" THEN Some(r.bytes)
    ELSE IF r.st = "err" THEN None
    ELSE [st |-> "panic", val |-> <<>>])))

\* Result<Option<String>, _> and the cache the lookups leave
SelectionResult(st, some, bytes, c) ==
    [st |-> st, some |-> some, bytes |-> bytes, cache |-> c]

get_cursor_selection(file, tb, cursor) ==
    IF no_selection(cursor) THEN SelectionResult("ok", FALSE, <<>>, tb.index.cache)
    ELSE
    LET range == Cursor_range(cursor) IN
    Bind(point_to_abs_offset(tb.index, range[1].row, range[1].col), LAMBDA s :
    IF s.res.st # "some"
    THEN SelectionResult(IF s.res.st = "panic" THEN "panic" ELSE "err",
                         FALSE, <<>>, s.cache)
    ELSE
    Bind(point_to_abs_offset(LineIndex(tb.index.root, s.cache),
                             range[2].row, range[2].col), LAMBDA e :
    IF e.res.st # "some"
    THEN SelectionResult(IF e.res.st = "panic" THEN "panic" ELSE "err",
                         FALSE, <<>>, e.cache)
    ELSE IF ULt(e.res.val, s.res.val)
    THEN SelectionResult("ok", FALSE, <<>>, e.cache)
    ELSE
    Bind(get_bytes_at(file, tb.table.buf, tb.table.pieces,
                      s.res.val, e.res.val - s.res.val), LAMBDA bytes :
    SelectionResult(bytes.st, bytes.st = "ok", bytes.bytes, e.cache))))

(***************************************************************************)
(* TextBuffer: insertion and deletion.                                     *)
(***************************************************************************)
\* Result<(Position, String), _> together with the buffer as the call left it
EditResult(st, tb, pos, bytes) == [st |-> st, tb |-> tb, pos |-> pos, bytes |-> bytes]
WithCache(tb, c) == [tb EXCEPT !.index.cache = c]
AsTable(r) == Table(r.buf, r.pieces, r.undo_stack, r.redo_stack)

TextBuffer_delete_selection(file, tb, cursor) ==
    IF no_selection(cursor) THEN EditResult("ok", tb, cursor.head, <<>>)
    ELSE
    LET range == Cursor_range(cursor)
        top_left == range[1]
        bottom_right == range[2]
    IN
    Bind(get_cursor_selection(file, tb, cursor), LAMBDA deleted_text :
    IF deleted_text.st # "ok"
    THEN EditResult(deleted_text.st, WithCache(tb, deleted_text.cache),
                    cursor.head, <<>>)
    ELSE
    Bind(point_to_abs_offset(LineIndex(tb.index.root, deleted_text.cache),
                             top_left.row, top_left.col), LAMBDA s :
    IF s.res.st # "some"
    THEN EditResult("panic", WithCache(tb, s.cache), cursor.head, <<>>)
    ELSE
    Bind(point_to_abs_offset(LineIndex(tb.index.root, s.cache),
                             bottom_right.row, bottom_right.col), LAMBDA e :
    IF e.res.st # "some"
    THEN EditResult("panic", WithCache(tb, e.cache), cursor.head, <<>>)
    ELSE
    LET start_offset == s.res.val
        end_offset == e.res.val
        length == end_offset - start_offset
    IN
    IF overflow_checks /\ SubOverflows(end_offset, start_offset)
    THEN EditResult("panic", WithCache(tb, e.cache), cursor.head, <<>>)
    ELSE
    Bind(PieceTable_delete(tb.table, start_offset, length), LAMBDA t :
    LET tb1 == TextBuffer(AsTable(t), LineIndex(tb.index.root, e.cache),
                          tb.is_dirty)
    IN
    IF t.st # "ok" THEN EditResult(t.st, tb1, cursor.head, <<>>)
    ELSE
    Bind(BTreeLineIndex_remove(tb1.index, start_offset, length), LAMBDA li :
    LET tb2 == TextBuffer(AsTable(t), LineIndex(li.root, li.cache), tb.is_dirty)
    IN
    IF li.st # "ok" THEN EditResult(li.st, tb2, cursor.head, <<>>)
    ELSE EditResult("ok", [tb2 EXCEPT !.is_dirty = TRUE], top_left,
                    IF deleted_text.some THEN deleted_text.bytes ELSE <<>>))))))

\* text.split('\n'): the lengths of the segments between the newlines
split_lens(bytes) ==
    LET nls == memchr_iter(bytes, 0)
        n == Len(nls)
    IN [k \in 1..(n + 1) |->
          (IF k = n + 1 THEN Len(bytes) ELSE nls[k])
          - (IF k = 1 THEN 0 ELSE nls[k - 1] + 1)]

TextBuffer_insert(file, tb, cursor, bytes) ==
    Bind(IF no_selection(cursor) THEN EditResult("ok", tb, cursor.head, <<>>)
         ELSE TextBuffer_delete_selection(file, tb, cursor), LAMBDA d :
    IF d.st # "ok" THEN EditResult(d.st, d.tb, cursor.head, <<>>)
    ELSE
    LET tb0 == d.tb
        insert_position == IF no_selection(cursor) THEN cursor.head
                           ELSE Cursor_range(cursor)[1]
    IN
    Bind(point_to_abs_offset(tb0.index, insert_position.row, insert_position.col),
         LAMBDA a :
    LET abs_offset == a.res.val
        tb1 == WithCache(tb0, a.cache)
    IN
    IF a.res.st # "some"
    THEN EditResult(IF a.res.st = "panic" THEN "panic" ELSE "err", tb1,
                    cursor.head, <<>>)
    ELSE
    Bind(PieceTable_insert(tb1.table, abs_offset, bytes), LAMBDA t :
    LET tb2 == [tb1 EXCEPT !.table = AsTable(t)] IN
    IF t.st # "ok" THEN EditResult(t.st, tb2, cursor.head, <<>>)
    ELSE
    Bind(BTreeLineIndex_insert(tb2.index, abs_offset, bytes), LAMBDA li :
    LET tb3 == [tb2 EXCEPT !.index = LineIndex(li.root, li.cache)]
        segs == split_lens(bytes)
        new_position ==
            IF Len(segs) = 1
            THEN Position(insert_position.row, insert_position.col + segs[1])
            ELSE Position(insert_position.row + Len(segs) - 1, segs[Len(segs)])
    IN
    IF li.st # "ok" THEN EditResult(li.st, tb3, cursor.head, <<>>)
    ELSE EditResult("ok", [tb3 EXCEPT !.is_dirty = TRUE], new_position, <<>>)))))

\* usize::saturating_sub(1)
saturating_sub1(n) == IF n = 0 THEN 0 ELSE n - 1

TextBuffer_backspace(file, tb, cursor) ==
    IF no_selection(cursor) /\ cursor.head.row = 0 /\ cursor.head.col = 0
    THEN EditResult("ok", tb, cursor.head, <<>>)
    ELSE
    LET prev_row == cursor.head.row - 1 IN
    Bind(IF no_selection(cursor) /\ cursor.head.col = 0
         THEN BTreeLineIndex_get_line_length_at(tb.index, prev_row)
         ELSE Some(0), LAMBDA prev_row_len :
    LET start_position ==
            IF cursor.head.col > 0
            THEN Position(cursor.head.row, cursor.head.col - 1)
            ELSE Position(prev_row, saturating_sub1(prev_row_len.val))
    IN
    IF prev_row_len.st # "some"
    THEN EditResult(IF prev_row_len.st = "panic" THEN "panic" ELSE "err", tb,
                    cursor.head, <<>>)
    ELSE TextBuffer_delete_selection(file, tb,
             IF ~no_selection(cursor) THEN cursor
             ELSE Cursor_new_selection(start_position, cursor.head)))

TextBuffer_delete_forward(file, tb, cursor) ==
    Bind(IF no_selection(cursor)
         THEN BTreeLineIndex_get_line_length_at(tb.index, cursor.head.row)
         ELSE Some(0), LAMBDA current_row_len :
    LET at_line_end == ~ULt(cursor.head.col, saturating_sub1(current_row_len.val))
        end_position ==
            IF at_line_end THEN Position(cursor.head.row + 1, 0)
            ELSE Position(cursor.head.row, cursor.head.col + 1)
    IN
    IF current_row_len.st # "some"
    THEN EditResult(IF current_row_len.st = "panic" THEN "panic" ELSE "err", tb,
                    cursor.head, <<>>)
    ELSE IF no_selection(cursor) /\ at_line_end /\ cursor.head.row + 1 >= line_count(tb)
    THEN EditResult("ok", tb, cursor.head, <<>>)
    ELSE TextBuffer_delete_selection(file, tb,
             IF ~no_selection(cursor) THEN cursor
             ELSE Cursor_new_selection(cursor.head, end_position)))

\* TextBuffer::save on a buffer with a file path, the file system doing what
\* it is asked: the chunks of iter_bytes() are written to the target file,
\* the file is mapped again and the table is reset to it. file is the mapped
\* file of the table that is returned.
TextBuffer_save(file, tb) ==
    Bind(iter_bytes(file, tb.table.buf, tb.table.pieces), LAMBDA chunks :
    IF chunks.st # "ok" THEN [st |-> "panic", file |-> file, tb |-> tb]
    ELSE [st |-> "ok", file |-> chunks.bytes,
          tb |-> TextBuffer(PieceTable_reset_to_mmap(tb.table, chunks.bytes),
                            tb.index, FALSE)])

(***************************************************************************)
(* History: transactions and batching.                                     *)
(***************************************************************************)
EditAction_Insert(pos, bytes) ==
    [kind |-> "Insert", pos |-> pos, end |-> pos, text |-> bytes]
EditAction_Delete(pos, end, bytes) ==
    [kind |-> "Delete", pos |-> pos, end |-> end, text |-> bytes]
Transaction(actions, cursor_before, cursor_after) ==
    [actions |-> actions, cursor_before |-> cursor_before,
     cursor_after |-> cursor_after]
History(us, rs) == [undo_stack |-> us, redo_stack |-> rs]

contains_newline(bytes) == \E i \in 1..Len(bytes) : bytes[i] = NL

record_replace(h, start, end, deleted_text, inserted_text, cursor_before, cursor_after) ==
    History(Append(h.undo_stack,
                   Transaction(<<EditAction_Delete(start, end, deleted_text),
                                 EditAction_Insert(start, inserted_text)>>,
                               cursor_before, cursor_after)),
            <<>>)

\* record_insert with a batch that also takes the cursor_before of the call
record_insert_moving_cursor_before(h, pos, bytes, cursor_before, cursor_after) ==
    LET n == Len(h.undo_stack)
        last_tx == h.undo_stack[n]
        k == Len(last_tx.actions)
        last_action == last_tx.actions[k]
    IN IF /\ n > 0
          /\ k > 0
          /\ last_action.kind = "Insert"
          /\ last_action.pos.row = pos.row
          /\ ~contains_newline(bytes)
          /\ ~contains_newline(last_action.text)
          /\ last_action.pos.col + Len(last_action.text) = pos.col
       THEN History([h.undo_stack EXCEPT ![n].actions[k].text = @ \o bytes,
                                         ![n].cursor_before = cursor_before,
                                         ![n].cursor_after = cursor_after],
                    <<>>)
       ELSE History(Append(h.undo_stack,
                           Transaction(<<EditAction_Insert(pos, bytes)>>,
                                       cursor_before, cursor_after)),
                    <<>>)

\* record_insert that also batches a text holding a newline
record_insert_batching_newline(h, pos, bytes, cursor_before, cursor_after) ==
    LET n == Len(h.undo_stack)
        last_tx == h.undo_stack[n]
        k == Len(last_tx.actions)
        last_action == last_tx.actions[k]
    IN IF /\ n > 0
          /\ k > 0
          /\ last_action.kind = "Insert"
          /\ last_action.pos.row = pos.row
          /\ ~contains_newline(last_action.text)
          /\ last_action.pos.col + Len(last_action.text) = pos.col
       THEN History([h.undo_stack EXCEPT ![n].actions[k].text = @ \o bytes,
                                         ![n].cursor_after = cursor_after],
                    <<>>)
       ELSE History(Append(h.undo_stack,
                           Transaction(<<EditAction_Insert(pos, bytes)>>,
                                       cursor_before, cursor_after)),
                    <<>>)

record_insert(h, pos, bytes, cursor_before, cursor_after) ==
    LET n == Len(h.undo_stack)
        last_tx == h.undo_stack[n]
        k == Len(last_tx.actions)
        last_action == last_tx.actions[k]
    IN IF /\ n > 0
          /\ k > 0
          /\ last_action.kind = "Insert"
          /\ last_action.pos.row = pos.row
          /\ ~contains_newline(bytes)
          /\ ~contains_newline(last_action.text)
          /\ last_action.pos.col + Len(last_action.text) = pos.col
       THEN History([h.undo_stack EXCEPT ![n].actions[k].text = @ \o bytes,
                                         ![n].cursor_after = cursor_after],
                    <<>>)
       ELSE History(Append(h.undo_stack,
                           Transaction(<<EditAction_Insert(pos, bytes)>>,
                                       cursor_before, cursor_after)),
                    <<>>)

\* record_delete that leaves the redo stack as it found it
record_delete_keeping_redo(h, start, end, deleted_text, cursor_before, cursor_after) ==
    LET n == Len(h.undo_stack)
        last_tx == h.undo_stack[n]
        k == Len(last_tx.actions)
        last_action == last_tx.actions[k]
        batch == /\ n > 0
                 /\ k > 0
                 /\ last_action.kind = "Delete"
                 /\ last_action.pos.row = start.row
                 /\ ~contains_newline(deleted_text)
                 /\ ~contains_newline(last_action.text)
                 /\ last_action.end.row = end.row
    IN IF batch /\ end = last_action.pos
       THEN History([h.undo_stack EXCEPT
                        ![n].actions[k].text = deleted_text \o @,
                        ![n].actions[k].pos = start,
                        ![n].cursor_after = cursor_after],
                    h.redo_stack)
       ELSE IF batch /\ start = last_action.pos
       THEN History([h.undo_stack EXCEPT
                        ![n].actions[k].text = @ \o deleted_text,
                        ![n].actions[k].end.col = @ + Len(deleted_text),
                        ![n].cursor_after = cursor_after],
                    h.redo_stack)
       ELSE History(Append(h.undo_stack,
                           Transaction(<<EditAction_Delete(start, end, deleted_text)>>,
                                       cursor_before, cursor_after)),
                    h.redo_stack)

record_delete(h, start, end, deleted_text, cursor_before, cursor_after) ==
    LET n == Len(h.undo_stack)
        last_tx == h.undo_stack[n]
        k == Len(last_tx.actions)
        last_action == last_tx.actions[k]
        batch == /\ n > 0
                 /\ k > 0
                 /\ last_action.kind = "Delete"
                 /\ last_action.pos.row = start.row
                 /\ ~contains_newline(deleted_text)
                 /\ ~contains_newline(last_action.text)
                 /\ last_action.end.row = end.row
    IN IF batch /\ end = last_action.pos
       THEN History([h.undo_stack EXCEPT
                        ![n].actions[k].text = deleted_text \o @,
                        ![n].actions[k].pos = start,
                        ![n].cursor_after = cursor_after],
                    <<>>)
       ELSE IF batch /\ start = last_action.pos
       THEN History([h.undo_stack EXCEPT
                        ![n].actions[k].text = @ \o deleted_text,
                        ![n].actions[k].end.col = @ + Len(deleted_text),
                        ![n].cursor_after = cursor_after],
                    <<>>)
       ELSE History(Append(h.undo_stack,
                           Transaction(<<EditAction_Delete(start, end, deleted_text)>>,
                                       cursor_before, cursor_after)),
                    <<>>)

\* History::undo and History::redo: Option<Transaction> and the stacks they leave
History_undo(h) ==
    LET n == Len(h.undo_stack) IN
    IF n = 0 THEN [some |-> FALSE, tx |-> Transaction(<<>>, Cursor_default, Cursor_default),
                   history |-> h]
    ELSE [some |-> TRUE, tx |-> h.undo_stack[n],
          history |-> History(SubSeq(h.undo_stack, 1, n - 1),
                              Append(h.redo_stack, h.undo_stack[n]))]

History_redo(h) ==
    LET n == Len(h.redo_stack) IN
    IF n = 0 THEN [some |-> FALSE, tx |-> Transaction(<<>>, Cursor_default, Cursor_default),
                   history |-> h]
    ELSE [some |-> TRUE, tx |-> h.redo_stack[n],
          history |-> History(Append(h.undo_stack, h.redo_stack[n]),
                              SubSeq(h.redo_stack, 1, n - 1))]

(***************************************************************************)
(* Document.                                                               *)
(***************************************************************************)
Document(tb, h, c, rec) ==
    [text_buffer |-> tb, history |-> h, cursor |-> c, is_recording |-> rec]
Document_new(tb) == Document(tb, History(<<>>, <<>>), Cursor_default, TRUE)
\* The document a call leaves, and whether the call panicked
DocResult(st, d) == [st |-> st, doc |-> d]

Document_insert(file, d, bytes) ==
    Bind(get_cursor_selection(file, d.text_buffer, d.cursor), LAMBDA selection_text :
    IF selection_text.st # "ok"
    THEN DocResult("panic",
                   [d EXCEPT !.text_buffer = WithCache(@, selection_text.cache)])
    ELSE
    Bind(TextBuffer_insert(file, WithCache(d.text_buffer, selection_text.cache),
                           d.cursor, bytes), LAMBDA r :
    IF r.st # "ok" THEN DocResult("panic", [d EXCEPT !.text_buffer = r.tb])
    ELSE
    LET cursor_before == d.cursor
        range == Cursor_range(d.cursor)
        cursor_after == Cursor_new(r.pos.row, r.pos.col)
    IN DocResult("ok",
         Document(r.tb,
                  IF ~d.is_recording THEN d.history
                  ELSE IF selection_text.some
                  THEN record_replace(d.history, range[1], range[2],
                                      selection_text.bytes, bytes,
                                      cursor_before, cursor_after)
                  ELSE record_insert(d.history, range[1], bytes,
                                     cursor_before, cursor_after),
                  cursor_after, d.is_recording))))

\* delete that records a transaction even when nothing was deleted
Document_delete_recording_empty(file, d, is_backspace) ==
    Bind(IF is_backspace THEN TextBuffer_backspace(file, d.text_buffer, d.cursor)
         ELSE TextBuffer_delete_forward(file, d.text_buffer, d.cursor), LAMBDA r :
    IF r.st # "ok" THEN DocResult("panic", [d EXCEPT !.text_buffer = r.tb])
    ELSE
    LET cursor_before == d.cursor
        new_pos == r.pos
        cursor_after == Cursor_new(new_pos.row, new_pos.col)
        range == IF ~no_selection(cursor_before) THEN Cursor_range(cursor_before)
                 ELSE IF PosLt(new_pos, cursor_before.head)
                 THEN <<new_pos, cursor_before.head>>
                 ELSE <<cursor_before.head, new_pos>>
    IN DocResult("ok",
         Document(r.tb,
                  IF d.is_recording
                  THEN record_delete(d.history, range[1], range[2], r.bytes,
                                     cursor_before, cursor_after)
                  ELSE d.history,
                  cursor_after, d.is_recording)))

Document_delete(file, d, is_backspace) ==
    Bind(IF is_backspace THEN TextBuffer_backspace(file, d.text_buffer, d.cursor)
         ELSE TextBuffer_delete_forward(file, d.text_buffer, d.cursor), LAMBDA r :
    IF r.st # "ok" THEN DocResult("panic", [d EXCEPT !.text_buffer = r.tb])
    ELSE
    LET cursor_before == d.cursor
        new_pos == r.pos
        cursor_after == Cursor_new(new_pos.row, new_pos.col)
        range == IF ~no_selection(cursor_before) THEN Cursor_range(cursor_before)
                 ELSE IF PosLt(new_pos, cursor_before.head)
                 THEN <<new_pos, cursor_before.head>>
                 ELSE <<cursor_before.head, new_pos>>
    IN DocResult("ok",
         Document(r.tb,
                  IF d.is_recording /\ r.bytes # <<>>
                  THEN record_delete(d.history, range[1], range[2], r.bytes,
                                     cursor_before, cursor_after)
                  ELSE d.history,
                  cursor_after, d.is_recording)))

calculate_end_position(start, bytes) ==
    LET segs == split_lens(bytes) IN
    IF Len(segs) > 1 THEN Position(start.row + Len(segs) - 1, segs[Len(segs)])
    ELSE Position(start.row, start.col + Len(bytes))

\* The for loop of execute_transaction over the actions: each one is played
\* back, and an Err of the buffer is dropped
RECURSIVE play_actions(_, _, _, _)
play_actions(file, tb, actions, is_undo) ==
    IF actions = <<>> THEN [st |-> "ok", tb |-> tb]
    ELSE LET action == Head(actions) IN
         Bind(IF (action.kind = "Insert") = is_undo
              THEN TextBuffer_delete_selection(file, tb,
                      Cursor_new_selection(action.pos,
                          calculate_end_position(action.pos, action.text)))
              ELSE TextBuffer_insert(file, tb,
                      Cursor_new(action.pos.row, action.pos.col), action.text),
              LAMBDA r :
         IF r.st = "panic" THEN [st |-> "panic", tb |-> r.tb]
         ELSE play_actions(file, r.tb, Tail(actions), is_undo))

\* execute_transaction restoring the cursor of the other direction
execute_transaction_swapping_cursor(file, d, transaction, is_undo) ==
    Bind(play_actions(file, d.text_buffer,
                      IF is_undo
                      THEN [i \in 1..Len(transaction.actions) |->
                              transaction.actions[Len(transaction.actions) + 1 - i]]
                      ELSE transaction.actions,
                      is_undo), LAMBDA r :
    IF r.st = "panic"
    THEN DocResult("panic", Document(r.tb, d.history, d.cursor, FALSE))
    ELSE DocResult("ok",
           Document(r.tb, d.history,
                    IF is_undo THEN transaction.cursor_after
                    ELSE transaction.cursor_before,
                    TRUE)))

execute_transaction(file, d, transaction, is_undo) ==
    Bind(play_actions(file, d.text_buffer,
                      IF is_undo
                      THEN [i \in 1..Len(transaction.actions) |->
                              transaction.actions[Len(transaction.actions) + 1 - i]]
                      ELSE transaction.actions,
                      is_undo), LAMBDA r :
    IF r.st = "panic"
    THEN DocResult("panic", Document(r.tb, d.history, d.cursor, FALSE))
    ELSE DocResult("ok",
           Document(r.tb, d.history,
                    IF is_undo THEN transaction.cursor_before
                    ELSE transaction.cursor_after,
                    TRUE)))

Document_undo(file, d) ==
    Bind(History_undo(d.history), LAMBDA u :
    IF ~u.some THEN DocResult("ok", d)
    ELSE execute_transaction(file, [d EXCEPT !.history = u.history], u.tx, TRUE))

Document_redo(file, d) ==
    Bind(History_redo(d.history), LAMBDA u :
    IF ~u.some THEN DocResult("ok", d)
    ELSE execute_transaction(file, [d EXCEPT !.history = u.history], u.tx, FALSE))

(***************************************************************************)
(* The Document's part of the state.                                       *)
(***************************************************************************)
docvars == <<history, doc_cursor, is_recording, marks>>

Marks(phase, initial, after) == [phase |-> phase, initial |-> initial, after |-> after]

\* No Document is built: its variables keep the values of Document::new
NoDocument ==
    /\ history = History(<<>>, <<>>)
    /\ doc_cursor = Cursor_default
    /\ is_recording = TRUE
    /\ marks = Marks("edit", <<>>, <<>>)

(***************************************************************************)
(* The piece table driven directly: insert, delete, undo, redo.            *)
(***************************************************************************)

CurTable == Table(buf, pieces, undo_stack, redo_stack)
Doc == iter_bytes(original, buf, pieces)

NoSnap == [before |-> BytesResult("ok", <<>>), after |-> BytesResult("ok", <<>>),
           pieces_before |-> <<>>, split |-> FALSE]
Call(op, pos, bytes, length, st, snap) ==
    [op |-> op, pos |-> pos, bytes |-> bytes, len |-> length, st |-> st,
     doc_before |-> Doc, pieces_before |-> pieces, buf_before |-> buf,
     undo_before |-> undo_stack, redo_before |-> redo_stack, snap |-> snap]

SetTable(r) ==
    /\ buf' = r.buf
    /\ pieces' = r.pieces
    /\ undo_stack' = r.undo_stack
    /\ redo_stack' = r.redo_stack
    /\ status' = IF r.st = "panic" THEN "panic" ELSE "ok"
    /\ calls' = calls + 1

\* Offsets a caller may pass: every offset of the document and one past its end
DocLen == IF Doc.st = "ok" THEN Len(Doc.bytes) ELSE Len(original) + Len(buf)
Offsets == 0..(DocLen + 1)

PtInit ==
    /\ overflow_checks \in BOOLEAN
    /\ original \in { <<>>, <<97, 98, 99, 100>>, <<97, 98, 99, 100, 101>> }
    /\ buf = <<>>
    /\ pieces = PieceTable_new(original)
    /\ undo_stack = <<>>
    /\ redo_stack = <<>>
    /\ status = "ok"
    /\ calls = 0
    /\ snaps = [undo |-> <<>>, redo |-> <<>>]
    /\ last = [op |-> "new", pos |-> 0, bytes |-> <<>>, len |-> 0, st |-> "ok",
               doc_before |-> BytesResult("ok", <<>>), pieces_before |-> <<>>,
               buf_before |-> <<>>, undo_before |-> <<>>, redo_before |-> <<>>,
               snap |-> NoSnap]
    /\ root = LeafNode_default
    /\ cache = NoCache
    /\ text = <<>>
    /\ is_dirty = FALSE
    /\ NoDocument

\* snaps follows the journals: an edit pushes a snapshot and clears redo
SnapsAfterEdit(r) ==
    IF r.st = "ok" /\ Len(r.undo_stack) = Len(undo_stack) + 1
    THEN [undo |-> Append(snaps.undo,
                     [before |-> Doc, after |-> iter_bytes(original, r.buf, r.pieces), pieces_before |-> pieces,
                      split |-> IF Len(r.buf) > Len(buf)
                                THEN Len(r.pieces) = Len(pieces) + 2
                                ELSE Len(r.pieces) = Len(pieces) + 1]),
          redo |-> <<>>]
    ELSE snaps

PtInsert(pos, bytes) ==
    /\ status = "ok" /\ calls < MaxCalls
    /\ LET r == PieceTable_insert(CurTable, pos, bytes) IN
       /\ SetTable(r)
       /\ last' = Call("insert", pos, bytes, Len(bytes), r.st, NoSnap)
       /\ snaps' = SnapsAfterEdit(r)
    /\ UNCHANGED <<original, overflow_checks, root, cache, text, is_dirty, docvars>>

PtDelete(pos, length) ==
    /\ status = "ok" /\ calls < MaxCalls
    /\ LET r == PieceTable_delete(CurTable, pos, length) IN
       /\ SetTable(r)
       /\ last' = Call("delete", pos, <<>>, length, r.st, NoSnap)
       /\ snaps' = SnapsAfterEdit(r)
    /\ UNCHANGED <<original, overflow_checks, root, cache, text, is_dirty, docvars>>

PtUndo ==
    /\ status = "ok" /\ calls < MaxCalls
    /\ LET r == PieceTable_undo(CurTable)
           n == Len(snaps.undo)
       IN /\ SetTable(r)
          /\ last' = Call("undo", 0, <<>>, 0, r.st,
                          IF n = 0 THEN NoSnap ELSE snaps.undo[n])
          /\ snaps' = IF n = 0 THEN snaps
                      ELSE [undo |-> SubSeq(snaps.undo, 1, n - 1),
                            redo |-> IF r.st = "ok" THEN Append(snaps.redo, snaps.undo[n])
                                     ELSE snaps.redo]
    /\ UNCHANGED <<original, overflow_checks, root, cache, text, is_dirty, docvars>>

PtRedo ==
    /\ status = "ok" /\ calls < MaxCalls
    /\ LET r == PieceTable_redo(CurTable)
           n == Len(snaps.redo)
       IN /\ SetTable(r)
          /\ last' = Call("redo", 0, <<>>, 0, r.st,
                          IF n = 0 THEN NoSnap ELSE snaps.redo[n])
          /\ snaps' = IF n = 0 THEN snaps
                      ELSE [undo |-> IF r.st = "ok" THEN Append(snaps.undo, snaps.redo[n])
                                     ELSE snaps.undo,
                            redo |-> SubSeq(snaps.redo, 1, n - 1)]
    /\ UNCHANGED <<original, overflow_checks, root, cache, text, is_dirty, docvars>>

\* The files a save can have written: the empty file, the document, another
\* text
NewMmaps == { <<>>, <<101, 102>> } \cup (IF Doc.st = "ok" THEN {Doc.bytes} ELSE {})

PtResetToMmap(new_mmap) ==
    /\ status = "ok" /\ calls < MaxCalls
    /\ SetTable(TableResult("ok", PieceTable_reset_to_mmap(CurTable, new_mmap)))
    /\ original' = new_mmap
    /\ last' = Call("reset_to_mmap", 0, new_mmap, 0, "ok", NoSnap)
    /\ snaps' = [undo |-> <<>>, redo |-> <<>>]
    /\ UNCHANGED <<overflow_checks, root, cache, text, is_dirty, docvars>>

PtNext ==
    \/ \E pos \in Offsets, n \in 1..MaxInsertLen :
          PtInsert(pos, [i \in 1..n |-> 119 + i])
    \/ \E pos \in Offsets, length \in 1..MaxDeleteLen :
          pos + length <= DocLen + 1 /\ PtDelete(pos, length)
    \/ PtUndo
    \/ PtRedo
    \/ \E new_mmap \in NewMmaps : PtResetToMmap(new_mmap)

SpecPT == PtInit /\ [][PtNext]_vars

(***************************************************************************)
(* The line index driven directly: insert and remove.                      *)
(***************************************************************************)
\* Seventeen one-byte lines: one more than a leaf holds

CurIndex == LineIndex(root, cache)
LiCall(op, pos, bytes, length, st) ==
    [op |-> op, pos |-> pos, bytes |-> bytes, len |-> length, st |-> st,
     root_before |-> root, text_before |-> text]

LiInit ==
    /\ overflow_checks \in BOOLEAN
    /\ text \in { <<>>, <<97, NL, 98>>, <<97, NL>>, [i \in 1..MAX_CHILDREN |-> NL],
                  [i \in 1..(MAX_CHILDREN + 1) |-> NL] }
    /\ root = BTreeLineIndex_new(text).root
    /\ cache = BTreeLineIndex_new(text).cache
    /\ status = "ok"
    /\ calls = 0
    /\ last = LiCall("new", 0, text, 0, "ok")
    /\ original = <<>> /\ buf = <<>> /\ pieces = <<>>
    /\ undo_stack = <<>> /\ redo_stack = <<>>
    /\ snaps = [undo |-> <<>>, redo |-> <<>>]
    /\ is_dirty = FALSE
    /\ NoDocument

SetIndex(r) ==
    /\ root' = r.root
    /\ cache' = r.cache
    /\ status' = IF r.st = "panic" THEN "panic" ELSE "ok"
    /\ calls' = calls + 1
    /\ UNCHANGED <<original, buf, pieces, undo_stack, redo_stack, snaps,
                   overflow_checks, is_dirty, docvars>>

LiInsert(pos, bytes) ==
    /\ status = "ok" /\ calls < MaxLiCalls
    /\ LET r == BTreeLineIndex_insert(CurIndex, pos, bytes) IN
       /\ SetIndex(r)
       /\ last' = LiCall("insert", pos, bytes, Len(bytes), r.st)
       /\ text' = IF r.st = "ok"
                  THEN SubSeq(text, 1, pos) \o bytes \o SubSeq(text, pos + 1, Len(text))
                  ELSE text

LiRemove(pos, length) ==
    /\ status = "ok" /\ calls < MaxLiCalls
    /\ LET r == BTreeLineIndex_remove(CurIndex, pos, length) IN
       /\ SetIndex(r)
       /\ last' = LiCall("remove", pos, <<>>, length, r.st)
       /\ text' = IF r.st = "ok"
                  THEN SubSeq(text, 1, pos) \o SubSeq(text, pos + length + 1, Len(text))
                  ELSE text

\* A query that may use the cache: the answer, the answer of the tree alone,
\* and the cache the query leaves
LiQuery(op, arg, r, tree) ==
    [op |-> op, pos |-> arg, bytes |-> <<>>, len |-> 0, st |-> "ok",
     root_before |-> root, text_before |-> text, res |-> r.res, tree |-> tree.res,
     cache_before |-> cache]

LiLineToAbs(line_idx) ==
    /\ status = "ok" /\ calls < MaxLiCalls
    /\ LET r == BTreeLineIndex_line_idx_to_abs_idx(CurIndex, line_idx, FALSE) IN
       /\ cache' = r.cache
       /\ status' = IF r.res.st = "panic" THEN "panic" ELSE "ok"
       /\ last' = LiQuery("line_idx_to_abs_idx", line_idx, r,
                          BTreeLineIndex_line_idx_to_abs_idx(CurIndex, line_idx, TRUE))
    /\ calls' = calls + 1
    /\ UNCHANGED <<original, buf, pieces, undo_stack, redo_stack, snaps, root, text,
                   overflow_checks, is_dirty, docvars>>

LiAbsToLine(abs_idx) ==
    /\ status = "ok" /\ calls < MaxLiCalls
    /\ LET r == BTreeLineIndex_abs_idx_to_line_idx(CurIndex, abs_idx, FALSE) IN
       /\ cache' = r.cache
       /\ status' = IF r.res.st = "panic" THEN "panic" ELSE "ok"
       /\ last' = LiQuery("abs_idx_to_line_idx", abs_idx, r,
                          BTreeLineIndex_abs_idx_to_line_idx(CurIndex, abs_idx, TRUE))
    /\ calls' = calls + 1
    /\ UNCHANGED <<original, buf, pieces, undo_stack, redo_stack, snaps, root, text,
                   overflow_checks, is_dirty, docvars>>

\* The lines a range query may start and end at
LineStarts == { 0, 1, MAX_CHILDREN, root.summary.line_count } \cap 0..root.summary.line_count
LineEnds(start_line) ==
    { start_line, start_line + 1, start_line + 2, root.summary.line_count + 1 }

LiLines(start_line, end_line) ==
    /\ status = "ok" /\ calls < MaxLiCalls
    /\ start_line <= end_line
    /\ last' = [LiQuery("lines", start_line,
                        [res |-> collect(BTreeLineIndex_lines(CurIndex, start_line, end_line))],
                        [res |-> <<>>]) EXCEPT !.len = end_line]
    /\ calls' = calls + 1
    /\ UNCHANGED <<original, buf, pieces, undo_stack, redo_stack, snaps, root, cache, text,
                   status, overflow_checks, is_dirty, docvars>>

\* The texts a caller inserts: a byte, a newline, two lines, and a paste of
\* twice as many newlines as a leaf holds lines
LiTexts == { <<97>>, <<NL>>, <<97, NL, 98>>, [i \in 1..(2 * MAX_CHILDREN) |-> NL] }

LiNext ==
    \/ \E pos \in 0..Len(text), bytes \in LiTexts : LiInsert(pos, bytes)
    \/ \E pos \in 0..Len(text), length \in 1..MaxRemoveLen :
          pos + length <= Len(text) /\ LiRemove(pos, length)
    \/ \E line_idx \in 0..root.summary.line_count : LiLineToAbs(line_idx)
    \/ \E abs_idx \in 0..Len(text) : LiAbsToLine(abs_idx)
    \/ \E start_line \in LineStarts : \E end_line \in LineEnds(start_line) :
          LiLines(start_line, end_line)

SpecLI == LiInit /\ [][LiNext]_vars

(***************************************************************************)
(* The TextBuffer driven directly: insert, delete_selection, backspace,    *)
(* delete_forward.                                                         *)
(***************************************************************************)

CurBuffer == TextBuffer(CurTable, CurIndex, is_dirty)

\* The positions a caller can point at: each row, each column up to its length
TbPositions ==
    { p \in [row : 0..(root.summary.line_count - 1), col : 0..root.summary.byte_len] :
        LET l == BTreeLineIndex_get_line_length_at(CurIndex, p.row) IN
        p.col <= IF l.st = "some" /\ l.val > 0 THEN l.val ELSE 0 }
TbCursors ==
    { Cursor_new(p.row, p.col) : p \in TbPositions }
    \cup { Cursor_new_selection(a, h) : a \in TbPositions, h \in TbPositions }

TbCall(op, cursor, bytes, r) ==
    [op |-> op, cursor |-> cursor, bytes |-> bytes, st |-> r.st, pos |-> r.pos,
     deleted |-> r.bytes, doc_before |-> Doc, root_before |-> root,
     dirty_before |-> is_dirty]

\* The buffer that new_with_text builds becomes the state
InitBuffer(tb) ==
    /\ buf = tb.table.buf
    /\ pieces = tb.table.pieces
    /\ undo_stack = tb.table.undo_stack
    /\ redo_stack = tb.table.redo_stack
    /\ root = tb.index.root
    /\ cache = tb.index.cache
    /\ is_dirty = tb.is_dirty

TbInit ==
    /\ overflow_checks \in BOOLEAN
    /\ original \in { <<>>, <<97, NL>>, <<97, 98, NL, 99, 100>> }
    /\ InitBuffer(TextBuffer_new_with_text(original))
    /\ status = "ok"
    /\ calls = 0
    /\ last = [op |-> "new", cursor |-> Cursor_default, bytes |-> original,
               st |-> "ok", pos |-> Position(0, 0), deleted |-> <<>>,
               doc_before |-> BytesResult("ok", <<>>), root_before |-> LeafNode_default,
               dirty_before |-> FALSE]
    /\ snaps = [undo |-> <<>>, redo |-> <<>>]
    /\ text = <<>>
    /\ NoDocument

SetBuffer(r, op, cursor, bytes) ==
    /\ last' = TbCall(op, cursor, bytes, r)
    /\ buf' = r.tb.table.buf
    /\ pieces' = r.tb.table.pieces
    /\ undo_stack' = r.tb.table.undo_stack
    /\ redo_stack' = r.tb.table.redo_stack
    /\ root' = r.tb.index.root
    /\ cache' = r.tb.index.cache
    /\ is_dirty' = r.tb.is_dirty
    /\ status' = IF r.st = "panic" THEN "panic" ELSE "ok"
    /\ calls' = calls + 1
    /\ UNCHANGED <<original, overflow_checks, snaps, text>>

TbInsert(cursor, bytes) ==
    /\ status = "ok" /\ calls < MaxTbCalls
    /\ SetBuffer(TextBuffer_insert(original, CurBuffer, cursor, bytes),
                 "insert", cursor, bytes)
    /\ UNCHANGED docvars

TbDeleteSelection(cursor) ==
    /\ status = "ok" /\ calls < MaxTbCalls
    /\ SetBuffer(TextBuffer_delete_selection(original, CurBuffer, cursor),
                 "delete_selection", cursor, <<>>)
    /\ UNCHANGED docvars

TbBackspace(cursor) ==
    /\ status = "ok" /\ calls < MaxTbCalls
    /\ SetBuffer(TextBuffer_backspace(original, CurBuffer, cursor),
                 "backspace", cursor, <<>>)
    /\ UNCHANGED docvars

TbDeleteForward(cursor) ==
    /\ status = "ok" /\ calls < MaxTbCalls
    /\ SetBuffer(TextBuffer_delete_forward(original, CurBuffer, cursor),
                 "delete_forward", cursor, <<>>)
    /\ UNCHANGED docvars

TbSave ==
    /\ status = "ok" /\ calls < MaxTbCalls
    /\ LET r == TextBuffer_save(original, CurBuffer) IN
       /\ last' = TbCall("save", Cursor_default, <<>>,
                         [st |-> r.st, pos |-> Position(0, 0), bytes |-> <<>>])
       /\ original' = r.file
       /\ buf' = r.tb.table.buf
       /\ pieces' = r.tb.table.pieces
       /\ undo_stack' = r.tb.table.undo_stack
       /\ redo_stack' = r.tb.table.redo_stack
       /\ root' = r.tb.index.root
       /\ cache' = r.tb.index.cache
       /\ is_dirty' = r.tb.is_dirty
       /\ status' = IF r.st = "panic" THEN "panic" ELSE "ok"
    /\ calls' = calls + 1
    /\ UNCHANGED <<overflow_checks, snaps, text, docvars>>

TbNext ==
    \/ \E cursor \in TbCursors, bytes \in { <<120>>, <<NL>> } : TbInsert(cursor, bytes)
    \/ \E cursor \in TbCursors : TbDeleteSelection(cursor)
    \/ \E cursor \in TbCursors : TbBackspace(cursor)
    \/ \E cursor \in TbCursors : TbDeleteForward(cursor)
    \/ TbSave

SpecTB == TbInit /\ [][TbNext]_vars

(***************************************************************************)
(* The Document driven as the editor drives it: typing, deleting, undo,    *)
(* redo, and the mouse placing the cursor.                                 *)
(***************************************************************************)

CurDocument == Document(CurBuffer, history, doc_cursor, is_recording)

\* The call just made, what it found, and the call made before it
DocCall(op, bytes, r) ==
    [op |-> op, bytes |-> bytes, st |-> r.st, doc_before |-> Doc,
     cursor_before |-> doc_cursor, history_before |-> history,
     root_before |-> root, cache_before |-> cache,
     prev |-> [last EXCEPT !.prev = <<>>]]

\* The document that Document::new builds becomes the state
InitDocument(d) ==
    /\ InitBuffer(d.text_buffer)
    /\ history = d.history
    /\ doc_cursor = d.cursor
    /\ is_recording = d.is_recording

DocInit ==
    /\ overflow_checks \in BOOLEAN
    /\ original \in { <<>>, <<97, NL, 98>> }
    /\ InitDocument(Document_new(TextBuffer_new_with_text(original)))
    /\ marks = Marks("edit", original, original)
    /\ status = "ok"
    /\ calls = 0
    /\ last = [op |-> "new", bytes |-> original, st |-> "ok",
               doc_before |-> BytesResult("ok", <<>>),
               cursor_before |-> Cursor_default, history_before |-> History(<<>>, <<>>),
               prev |-> <<>>]
    /\ snaps = [undo |-> <<>>, redo |-> <<>>]
    /\ text = <<>>

SetDocument(r, op, bytes) ==
    /\ last' = DocCall(op, bytes, r)
    /\ buf' = r.doc.text_buffer.table.buf
    /\ pieces' = r.doc.text_buffer.table.pieces
    /\ undo_stack' = r.doc.text_buffer.table.undo_stack
    /\ redo_stack' = r.doc.text_buffer.table.redo_stack
    /\ root' = r.doc.text_buffer.index.root
    /\ cache' = r.doc.text_buffer.index.cache
    /\ is_dirty' = r.doc.text_buffer.is_dirty
    /\ history' = r.doc.history
    /\ doc_cursor' = r.doc.cursor
    /\ is_recording' = r.doc.is_recording
    /\ status' = IF r.st = "panic" THEN "panic" ELSE "ok"
    /\ calls' = calls + 1
    /\ UNCHANGED <<original, overflow_checks, snaps, text>>

EditPhase == IF marks.phase = "edit" THEN marks ELSE [marks EXCEPT !.phase = "other"]

DocInsert(bytes) ==
    /\ status = "ok" /\ calls < MaxDocCalls
    /\ SetDocument(Document_insert(original, CurDocument, bytes), "insert", bytes)
    /\ marks' = EditPhase

DocDelete(is_backspace) ==
    /\ status = "ok" /\ calls < MaxDocCalls
    /\ SetDocument(Document_delete(original, CurDocument, is_backspace),
                   IF is_backspace THEN "backspace" ELSE "delete_forward", <<>>)
    /\ marks' = EditPhase

DocUndo ==
    /\ status = "ok" /\ calls < MaxDocCalls
    /\ SetDocument(Document_undo(original, CurDocument), "undo", <<>>)
    /\ marks' = IF marks.phase = "edit" /\ Doc.st = "ok"
                THEN Marks("undo", marks.initial, Doc.bytes)
                ELSE IF marks.phase = "undo" THEN marks
                ELSE [marks EXCEPT !.phase = "other"]

DocRedo ==
    /\ status = "ok" /\ calls < MaxDocCalls
    /\ SetDocument(Document_redo(original, CurDocument), "redo", <<>>)
    /\ marks' = IF marks.phase = "undo" /\ history.undo_stack = <<>>
                THEN [marks EXCEPT !.phase = "redo"]
                ELSE IF marks.phase \in {"edit", "redo"} THEN marks
                ELSE [marks EXCEPT !.phase = "other"]

\* on_push: the mouse puts anchor and head on a position of the text
DocPush(p) ==
    /\ status = "ok" /\ calls < MaxDocCalls
    /\ doc_cursor' = [doc_cursor EXCEPT !.head = p, !.anchor = p]
    /\ calls' = calls + 1
    /\ last' = DocCall("push", <<>>, [st |-> "ok"])
    /\ marks' = EditPhase
    /\ UNCHANGED <<original, buf, pieces, undo_stack, redo_stack, overflow_checks,
                   status, snaps, root, cache, text, is_dirty, history, is_recording>>

\* on_drag: the mouse moves the head alone
DocDrag(p) ==
    /\ status = "ok" /\ calls < MaxDocCalls
    /\ doc_cursor' = [doc_cursor EXCEPT !.head = p]
    /\ calls' = calls + 1
    /\ last' = DocCall("drag", <<>>, [st |-> "ok"])
    /\ marks' = EditPhase
    /\ UNCHANGED <<original, buf, pieces, undo_stack, redo_stack, overflow_checks,
                   status, snaps, root, cache, text, is_dirty, history, is_recording>>

DocNext ==
    \/ \E bytes \in { <<120>>, <<NL>> } : DocInsert(bytes)
    \/ \E is_backspace \in BOOLEAN : DocDelete(is_backspace)
    \/ DocUndo
    \/ DocRedo
    \/ \E p \in TbPositions : DocPush(p)
    \/ \E p \in TbPositions : DocDrag(p)

SpecDoc == DocInit /\ [][DocNext]_vars

(***************************************************************************)
(* The History driven directly: record_insert, record_delete and           *)
(* record_replace with the positions, texts and cursors a caller can pass. *)
(***************************************************************************)

HistInit ==
    /\ history = History(<<>>, <<>>)
    /\ doc_cursor = Cursor_default
    /\ is_recording = TRUE
    /\ marks = Marks("edit", <<>>, <<>>)
    /\ status = "ok"
    /\ calls = 0
    /\ last = [op |-> "new", pos |-> Position(0, 0), end |-> Position(0, 0),
               text |-> <<>>, cursor_before |-> Cursor_default,
               cursor_after |-> Cursor_default,
               history_before |-> History(<<>>, <<>>)]
    /\ overflow_checks \in BOOLEAN
    /\ original = <<>> /\ buf = <<>> /\ pieces = <<>>
    /\ undo_stack = <<>> /\ redo_stack = <<>>
    /\ snaps = [undo |-> <<>>, redo |-> <<>>]
    /\ root = LeafNode_default
    /\ cache = NoCache
    /\ text = <<>>
    /\ is_dirty = FALSE

HistRecordInsert(pos, bytes, cursor_before, cursor_after) ==
    /\ calls < MaxHistCalls
    /\ history' = record_insert(history, pos, bytes, cursor_before, cursor_after)
    /\ calls' = calls + 1
    /\ last' = [op |-> "record_insert", pos |-> pos, end |-> pos, text |-> bytes,
                cursor_before |-> cursor_before, cursor_after |-> cursor_after,
                history_before |-> history]
    /\ UNCHANGED <<original, buf, pieces, undo_stack, redo_stack, overflow_checks,
                   status, snaps, root, cache, text, is_dirty, doc_cursor,
                   is_recording, marks>>

HistRecordDelete(start, end, deleted_text, cursor_before, cursor_after) ==
    /\ calls < MaxHistCalls
    /\ history' = record_delete(history, start, end, deleted_text,
                                cursor_before, cursor_after)
    /\ calls' = calls + 1
    /\ last' = [op |-> "record_delete", pos |-> start, end |-> end,
                text |-> deleted_text,
                cursor_before |-> cursor_before, cursor_after |-> cursor_after,
                history_before |-> history]
    /\ UNCHANGED <<original, buf, pieces, undo_stack, redo_stack, overflow_checks,
                   status, snaps, root, cache, text, is_dirty, doc_cursor,
                   is_recording, marks>>

HistRecordReplace(start, end, deleted_text, inserted_text, cursor_before, cursor_after) ==
    /\ calls < MaxHistCalls
    /\ history' = record_replace(history, start, end, deleted_text, inserted_text,
                                 cursor_before, cursor_after)
    /\ calls' = calls + 1
    /\ last' = [op |-> "record_replace", pos |-> start, end |-> end,
                text |-> inserted_text,
                cursor_before |-> cursor_before, cursor_after |-> cursor_after,
                history_before |-> history]
    /\ UNCHANGED <<original, buf, pieces, undo_stack, redo_stack, overflow_checks,
                   status, snaps, root, cache, text, is_dirty, doc_cursor,
                   is_recording, marks>>

HistNext ==
    \/ \E pos \in [row : 0..1, col : 0..2],
          bytes \in { <<120>>, <<120, 121>>, <<NL>> },
          c \in { <<Cursor_new(0, 0), Cursor_new(1, 1)>>,
                  <<Cursor_new(1, 2), Cursor_new(0, 1)>> } :
          HistRecordInsert(pos, bytes, c[1], c[2])
    \/ \E start \in [row : 0..1, col : 0..2], end \in [row : 0..1, col : 0..2],
          bytes \in { <<120>>, <<NL>> } :
          /\ PosLe(start, end)
          /\ HistRecordDelete(start, end, bytes,
                              Cursor_new(end.row, end.col),
                              Cursor_new(start.row, start.col))
    \/ \E start \in [row : 0..1, col : 0..2], bytes \in { <<120>>, <<NL>> } :
          HistRecordReplace(start, Position(start.row, start.col + 1), <<121>>,
                            bytes,
                            Cursor_new_selection(start,
                                Position(start.row, start.col + 1)),
                            Cursor_new(start.row, start.col + 1))

SpecHist == HistInit /\ [][HistNext]_vars

(***************************************************************************)
(* Properties of the piece table                                           *)
(***************************************************************************)
Slice(d, from, to) == SubSeq(d, from + 1, to)

\* C3: after a successful insert(pos, B) with pos <= len() and B non-empty
\* into a table whose document is D, the document is D[0..pos] ++ B ++
\* D[pos..] and len() has grown by |B|.
C3_InsertContent ==
    (/\ last.op = "insert" /\ last.st = "ok" /\ status = "ok"
     /\ last.doc_before.st = "ok"
     /\ last.bytes # <<>>
     /\ last.pos <= Len(last.doc_before.bytes))
    => /\ Doc.st = "ok"
       /\ Doc.bytes = Slice(last.doc_before.bytes, 0, last.pos) \o last.bytes
                       \o Slice(last.doc_before.bytes, last.pos,
                                Len(last.doc_before.bytes))
       /\ PieceTable_len(pieces)
             = PieceTable_len(last.pieces_before) + Len(last.bytes)

\* An insert that split a piece of a table that already held several pieces
C3_Witness ==
    /\ last.op = "insert" /\ last.st = "ok" /\ status = "ok"
    /\ last.doc_before.st = "ok"
    /\ Len(last.pieces_before) >= 2
    /\ Len(pieces) = Len(last.pieces_before) + 2
    /\ \E i \in 1..Len(last.pieces_before) : last.pieces_before[i].range.start > 0

\* C4: delete(pos, length) with length > 0 and pos + length <= len() on a
\* table whose document is D leaves the document D[0..pos] ++ D[pos+length..]
\* and len() smaller by exactly length.
C4_DeleteContent ==
    (/\ last.op = "delete"
     /\ last.doc_before.st = "ok"
     /\ last.len > 0
     /\ last.pos + last.len <= Len(last.doc_before.bytes))
    => /\ last.st = "ok"
       /\ Doc.st = "ok"
       /\ Doc.bytes = Slice(last.doc_before.bytes, 0, last.pos)
                       \o Slice(last.doc_before.bytes, last.pos + last.len,
                                Len(last.doc_before.bytes))
       /\ PieceTable_len(pieces) = PieceTable_len(last.pieces_before) - last.len

\* C5: undo() brings the document bytes back to what they were before the
\* most recent edit not yet undone, and a following redo() to what they were
\* after that edit.
C5_UndoRedoRoundTrip ==
    /\ (last.op = "undo" /\ last.undo_before # <<>> /\ last.snap.before.st = "ok")
        => (last.st = "ok" /\ Doc = last.snap.before)
    /\ (last.op = "redo" /\ last.redo_before # <<>> /\ last.snap.after.st = "ok")
        => (last.st = "ok" /\ Doc = last.snap.after)

\* C6: undo() of an edit that split a piece leaves the piece sequence identical
\* to the sequence before that edit.
C6_UndoRestoresLayout ==
    (last.op = "undo" /\ last.undo_before # <<>> /\ last.snap.split)
    => (last.st = "ok" /\ pieces = last.snap.pieces_before)

\* C7: get_bytes_at(pos, length) with pos + length <= len() returns exactly
\* the bytes D[pos..pos+length] of the document D.
C7_GetBytesAtExact ==
    (status = "ok" /\ Doc.st = "ok")
    => \A pos \in 0..Len(Doc.bytes) : \A length \in 0..(Len(Doc.bytes) - pos) :
          get_bytes_at(original, buf, pieces, pos, length)
            = BytesResult("ok", Slice(Doc.bytes, pos, pos + length))

\* C8: the chunks of iter_bytes() concatenated equal get_bytes_at(0, len()).
C8_IteratorAgreement ==
    (status = "ok" /\ Doc.st = "ok")
    => get_bytes_at(original, buf, pieces, 0, PieceTable_len(pieces)) = Doc

(***************************************************************************)
(* Properties of the line index                                            *)
(***************************************************************************)
RECURSIVE SummaryConsistent(_)
SummaryConsistent(node) ==
    IF node.leaf
    THEN /\ node.summary.line_count = Len(node.line_lengths)
         /\ node.summary.byte_len = SeqSum(node.line_lengths)
    ELSE /\ node.summary = FoldSummary(LineSummary(0, 0), node.children)
         /\ \A i \in 1..Len(node.children) : SummaryConsistent(node.children[i])

\* C10: after every build, insert and remove, each internal node's summary is
\* the sum of its children's summaries and each leaf's summary is the count
\* and the sum of its line lengths.
C10_SummaryConsistency ==
    (status = "ok" /\ last.st = "ok") => SummaryConsistent(root)

(***************************************************************************)
(* Properties of the TextBuffer                                            *)
(***************************************************************************)
\* C1: after every successful insert, delete_selection, backspace or
\* delete_forward on a TextBuffer, PieceTable.len() equals the byte_len of the
\* line index's root.
C1_LengthAgreement ==
    (/\ last.op \in {"insert", "delete_selection", "backspace", "delete_forward"}
     /\ last.st = "ok" /\ status = "ok")
    => /\ ~AnyLenPanics(pieces)
       /\ PieceTable_len(pieces) = root.summary.byte_len

\* C9: the line count is 1 + the number of newline bytes of the document, and
\* a document that ends with a newline has a trailing line entry of length 0.
C9_LineCountLaw ==
    (status = "ok" /\ last.st = "ok" /\ Doc.st = "ok")
    => /\ line_count(CurBuffer) = 1 + Len(memchr_iter(Doc.bytes, 0))
       /\ (Doc.bytes # <<>> /\ Doc.bytes[Len(Doc.bytes)] = NL)
          => BTreeLineIndex_get_line_length_at(CurIndex, line_count(CurBuffer) - 1)
               = Some(0)

(***************************************************************************)
(* Properties of the Document                                              *)
(***************************************************************************)
\* C2: after a sequence of Document.insert / Document.delete calls, calling
\* undo() until the undo stack is empty yields the initial bytes, and calling
\* redo() until the redo stack is empty then yields the bytes after the
\* sequence.
C2_UndoRedoIdempotence ==
    /\ marks.phase = "undo"
       => /\ status = "ok"
          /\ history.undo_stack = <<>> => Doc = BytesResult("ok", marks.initial)
    /\ marks.phase = "redo"
       => /\ status = "ok"
          /\ history.redo_stack = <<>> => Doc = BytesResult("ok", marks.after)

(***************************************************************************)
(* Properties of the line index lookups and edits                          *)
(***************************************************************************)
\* C11: for every line below line_count(), looking up the byte offset of the
\* line and then the line of that offset, both against the tree, gives the
\* line back.
C11_OffsetLineRoundTrip ==
    status = "ok" =>
      \A line \in 0..(root.summary.line_count - 1) :
        Bind(BTreeLineIndex_line_idx_to_abs_idx(CurIndex, line, TRUE).res,
             LAMBDA off :
             /\ off.st = "some"
             /\ BTreeLineIndex_abs_idx_to_line_idx(CurIndex, off.val, TRUE).res
                  = Some(line))

\* The line lengths of a tree from left to right
RECURSIVE LineLengths(_)
LineLengths(node) ==
    IF node.leaf THEN node.line_lengths
    ELSE Flatten([i \in 1..Len(node.children) |-> LineLengths(node.children[i])])

\* C12: after a successful insert(offset, text) with offset <= byte_len() and
\* text non-empty, where line i contains the offset (the last line when the
\* offset is byte_len()) and p is the offset inside it, the line lengths are
\* those before with l_i replaced by p + L_0, L_1, .., L_(k-1),
\* trailing + (l_i - p), or by l_i + |text| when text has no newline.
C12_InsertSplicesLines ==
    (status = "ok" /\ last.op = "insert" /\ last.st = "ok") =>
      Bind(LineLengths(last.root_before), LAMBDA lens :
      Bind(position_loop(lens, 0, last.pos), LAMBDA at :
      Bind(new_lines_of(memchr_iter(last.bytes, 0), 0), LAMBDA L :
      LET i == IF at.found THEN at.idx ELSE Len(lens) - 1
          p == IF at.found THEN at.abs ELSE lens[Len(lens)]
          trailing == Len(last.bytes) - SeqSum(L)
      IN last.pos <= SeqSum(lens) =>
           LineLengths(root) =
             SubSeq(lens, 1, i)
             \o (IF L = <<>> THEN <<lens[i + 1] + Len(last.bytes)>>
                 ELSE <<p + L[1]>> \o Tail(L) \o <<trailing + (lens[i + 1] - p)>>)
             \o SubSeq(lens, i + 2, Len(lens)))))

\* C13: remove(offset, length) with length > 0 and offset + length <= byte_len()
\* completes without error or panic, sets the line containing offset to
\* prefix_len + suffix_len, drops the later lines up to and including the line
\* containing offset + length, keeps the other lines and lowers byte_len()
\* by length.
C13_RemoveMergesLines ==
    (last.op = "remove" /\ last.len > 0
     /\ last.pos + last.len <= last.root_before.summary.byte_len) =>
      /\ status = "ok"
      /\ last.st = "ok"
      /\ root.summary.byte_len = last.root_before.summary.byte_len - last.len
      /\ Bind(LineLengths(last.root_before), LAMBDA lens :
         Bind(position_loop(lens, 0, last.pos), LAMBDA from :
         Bind(position_loop(lens, 0, last.pos + last.len), LAMBDA to :
         LET start_line == IF from.found THEN from.idx ELSE Len(lens) - 1
             end_line == IF to.found THEN to.idx ELSE Len(lens) - 1
             prefix_len == IF from.found THEN from.abs ELSE lens[Len(lens)]
             suffix_len == IF to.found THEN lens[end_line + 1] - to.abs ELSE 0
         IN LineLengths(root) =
              SubSeq(lens, 1, start_line) \o <<prefix_len + suffix_len>>
              \o SubSeq(lens, end_line + 2, Len(lens)))))

(***************************************************************************)
(* Properties of the TextBuffer queries                                    *)
(***************************************************************************)
\* C14: get_line(idx) returns, for every idx below line_count, exactly the
\* document bytes from the start offset of line idx for its line length, and
\* None for idx >= line_count.
C14_GetLineFullLine ==
    (status = "ok" /\ Doc.st = "ok") =>
      \A idx \in 0..line_count(CurBuffer) :
        IF idx >= line_count(CurBuffer)
        THEN TextBuffer_get_line(original, CurBuffer, idx) = None
        ELSE Bind(Node_line_idx_to_abs_idx(root, idx).val, LAMBDA start :
             TextBuffer_get_line(original, CurBuffer, idx)
               = Some(SubSeq(Doc.bytes, start + 1,
                             start + Node_get_line_length_at(root, idx).val)))

(***************************************************************************)
(* Properties of the History                                               *)
(***************************************************************************)
\* C15: when record_insert(pos, text, cb, ca) finds that the last action of the
\* top undo transaction is an Insert on the row of pos whose column plus text
\* length is pos.col, and neither text holds a newline, the undo stack keeps
\* its length, text is appended to that Insert, the transaction's cursor_after
\* becomes ca and its cursor_before, like everything else, is unchanged.
C15_InsertBatching ==
    LET before == last.history_before.undo_stack
        n == Len(before)
        k == Len(before[n].actions)
        last_action == before[n].actions[k]
        after == history.undo_stack
    IN (/\ last.op = "record_insert"
        /\ n > 0
        /\ k > 0
        /\ last_action.kind = "Insert"
        /\ last_action.pos.row = last.pos.row
        /\ last_action.pos.col + Len(last_action.text) = last.pos.col
        /\ ~contains_newline(last.text)
        /\ ~contains_newline(last_action.text))
       => /\ Len(after) = n
          /\ SubSeq(after, 1, n - 1) = SubSeq(before, 1, n - 1)
          /\ Len(after[n].actions) = k
          /\ SubSeq(after[n].actions, 1, k - 1) = SubSeq(before[n].actions, 1, k - 1)
          /\ after[n].actions[k].kind = "Insert"
          /\ after[n].actions[k].pos = last_action.pos
          /\ after[n].actions[k].text = last_action.text \o last.text
          /\ after[n].cursor_after = last.cursor_after
          /\ after[n].cursor_before = before[n].cursor_before

\* Two adjacent inserts became one transaction that kept the first cursor_before
C15_Witness ==
    /\ last.op = "record_insert"
    /\ Len(last.history_before.undo_stack) = 1
    /\ Len(history.undo_stack) = 1
    /\ history.undo_stack[1].actions = <<EditAction_Insert(Position(0, 0), <<120, 120>>)>>
    /\ history.undo_stack[1].cursor_before # last.cursor_before
    /\ history.undo_stack[1].cursor_after = last.cursor_after

\* C16: record_delete(start, end, text) with start < end on one row and text
\* without a newline, when the last action of the top transaction is a
\* single-row newline-free Delete [s0, e0) with text t0, turns that action into
\* Delete [start, e0) with text ++ t0 if end = s0, else into
\* Delete [s0, e0 + |text|) with t0 ++ text if start = s0, and pushes nothing;
\* in every other case it pushes a new transaction of that one Delete.
C16_DeleteBatching ==
    LET before == last.history_before.undo_stack
        n == Len(before)
        k == Len(before[n].actions)
        last_action == before[n].actions[k]
        after == history.undo_stack
        batchable == /\ n > 0
                     /\ k > 0
                     /\ last_action.kind = "Delete"
                     /\ last.pos.row = last.end.row
                     /\ last.pos.col < last.end.col
                     /\ ~contains_newline(last.text)
                     /\ last_action.pos.row = last_action.end.row
                     /\ ~contains_newline(last_action.text)
        batched(action) ==
            /\ Len(after) = n
            /\ SubSeq(after, 1, n - 1) = SubSeq(before, 1, n - 1)
            /\ Len(after[n].actions) = k
            /\ SubSeq(after[n].actions, 1, k - 1) = SubSeq(before[n].actions, 1, k - 1)
            /\ after[n].actions[k] = action
    IN last.op = "record_delete" =>
         IF batchable /\ last.end = last_action.pos
         THEN batched(EditAction_Delete(last.pos, last_action.end,
                                        last.text \o last_action.text))
         ELSE IF batchable /\ last.pos = last_action.pos
         THEN batched(EditAction_Delete(last_action.pos,
                         Position(last_action.end.row,
                                  last_action.end.col + Len(last.text)),
                         last_action.text \o last.text))
         ELSE /\ Len(after) = n + 1
              /\ SubSeq(after, 1, n) = before
              /\ after[n + 1].actions
                   = <<EditAction_Delete(last.pos, last.end, last.text)>>

(***************************************************************************)
(* Properties of the Document's history                                    *)
(***************************************************************************)
\* C17: Document.insert(text) over a non-empty selection pushes exactly one
\* transaction, Delete{selection start, selection end, selected text} then
\* Insert{selection start, text}, and one Document.undo() after it restores
\* the bytes and the cursor (the selection) from before the replacement.
C17_ReplaceIsOneUnit ==
    LET off(d, p) == IF p.row = 0 THEN p.col
                     ELSE memchr_iter(d, 0)[p.row] + 1 + p.col
    IN
    /\ (last.op = "insert" /\ ~no_selection(last.cursor_before)
        /\ last.doc_before.st = "ok") =>
         LET range == Cursor_range(last.cursor_before)
             d == last.doc_before.bytes
             before == last.history_before.undo_stack
             after == history.undo_stack
         IN /\ status = "ok"
            /\ Len(after) = Len(before) + 1
            /\ SubSeq(after, 1, Len(before)) = before
            /\ after[Len(after)].actions =
                 <<EditAction_Delete(range[1], range[2],
                       SubSeq(d, off(d, range[1]) + 1, off(d, range[2]))),
                   EditAction_Insert(range[1], last.bytes)>>
    /\ (last.op = "undo" /\ last.prev.op = "insert" /\ last.prev.st = "ok"
        /\ ~no_selection(last.prev.cursor_before)
        /\ last.prev.doc_before.st = "ok") =>
         /\ status = "ok"
         /\ Doc = last.prev.doc_before
         /\ doc_cursor = last.prev.cursor_before

\* C18: after a Document.insert, and after a Document.delete that removed a
\* byte, the redo stack of the History is empty, and a Document.redo() that
\* follows changes nothing.
C18_EditInvalidatesRedo ==
    /\ (status = "ok" /\ last.st = "ok"
        /\ \/ last.op = "insert"
           \/ /\ last.op \in {"backspace", "delete_forward"}
              /\ Doc # last.doc_before)
       => history.redo_stack = <<>>
    /\ (last.op = "redo" /\ last.prev.st = "ok"
        /\ \/ last.prev.op = "insert"
           \/ /\ last.prev.op \in {"backspace", "delete_forward"}
              /\ last.doc_before # last.prev.doc_before)
       => /\ status = "ok"
          /\ Doc = last.doc_before
          /\ doc_cursor = last.cursor_before
          /\ history = last.history_before

\* An insert found transactions to redo and emptied the redo stack
C18_Witness ==
    /\ status = "ok"
    /\ last.op = "insert"
    /\ last.st = "ok"
    /\ last.history_before.redo_stack # <<>>
    /\ history.redo_stack = <<>>

\* C19: a Document.insert whose text holds a newline, and a Document.insert
\* that directly follows an insert whose text holds a newline, is recorded as
\* a new transaction: the undo stack grows by one and the transactions it
\* held are unchanged.
C19_NewlineBreaksBatching ==
    (/\ status = "ok"
     /\ last.op = "insert"
     /\ last.st = "ok"
     /\ \/ contains_newline(last.bytes)
        \/ /\ last.prev.op = "insert"
           /\ last.prev.st = "ok"
           /\ contains_newline(last.prev.bytes))
    => /\ Len(history.undo_stack) = Len(last.history_before.undo_stack) + 1
       /\ SubSeq(history.undo_stack, 1, Len(last.history_before.undo_stack))
            = last.history_before.undo_stack

\* A newline typed right after a character on the same row got its own transaction
C19_Witness ==
    /\ status = "ok"
    /\ last.op = "insert"
    /\ last.bytes = <<NL>>
    /\ last.prev.op = "insert"
    /\ last.prev.bytes = <<120>>
    /\ no_selection(last.cursor_before)
    /\ Len(history.undo_stack) = 2
    /\ history.undo_stack[1].actions[1].pos.row = history.undo_stack[2].actions[1].pos.row
    /\ history.undo_stack[2].actions[1].pos.col = history.undo_stack[1].actions[1].pos.col + 1

\* C20: a Document.insert without selection made after the mouse gave the
\* cursor a different position is recorded as a new transaction and never
\* merged into the transaction of an earlier insert, whatever the position.
C20_CursorMotionBreaksBatching ==
    (/\ status = "ok"
     /\ last.op = "insert"
     /\ last.st = "ok"
     /\ no_selection(last.cursor_before)
     /\ last.prev.op \in {"push", "drag"}
     /\ last.prev.cursor_before # last.cursor_before)
    => /\ Len(history.undo_stack) = Len(last.history_before.undo_stack) + 1
       /\ SubSeq(history.undo_stack, 1, Len(last.history_before.undo_stack))
            = last.history_before.undo_stack

C22_InsertReturnsEndPosition ==
    (status = "ok" /\ last.op = "insert" /\ last.st = "ok") =>
      LET ip == IF no_selection(last.cursor) THEN last.cursor.head
                ELSE Cursor_range(last.cursor)[1]
          nls == memchr_iter(last.bytes, 0)
          offset == Node_line_idx_to_abs_idx(last.root_before, ip.row).val + ip.col
      IN /\ last.pos = IF nls = <<>> THEN Position(ip.row, ip.col + Len(last.bytes))
                       ELSE Position(ip.row + Len(nls),
                                     Len(last.bytes) - nls[Len(nls)] - 1)
         /\ point_to_abs_offset(CurIndex, last.pos.row, last.pos.col).res
              = Some(offset + Len(last.bytes))

\* C23: backspace without selection with the head at (r, 0), r > 0, removes
\* exactly one byte, the newline that ends row r - 1, returns it as the deleted
\* text, lowers line_count by one and returns (r - 1, old length of row r - 1
\* minus 1).
C23_BackspaceJoinsLines ==
    (/\ last.op = "backspace"
     /\ no_selection(last.cursor)
     /\ last.cursor.head.row > 0
     /\ last.cursor.head.col = 0)
    => LET r == last.cursor.head.row
           k == Node_line_idx_to_abs_idx(last.root_before, r).val
           prev_len == Node_get_line_length_at(last.root_before, r - 1).val
           before == last.doc_before.bytes
       IN /\ status = "ok"
          /\ last.st = "ok"
          /\ before[k] = NL
          /\ Doc = BytesResult("ok", SubSeq(before, 1, k - 1)
                                       \o SubSeq(before, k + 1, Len(before)))
          /\ last.deleted = <<NL>>
          /\ root.summary.line_count = last.root_before.summary.line_count - 1
          /\ last.pos = Position(r - 1, prev_len - 1)

\* C24: delete_forward without selection at a valid head whose offset is below
\* the document length removes exactly the byte at that offset and returns the
\* head; with the head at the document length it changes neither the bytes
\* nor the line index and the deleted text is empty.
C24_DeleteForwardOneByte ==
    (/\ last.op = "delete_forward"
     /\ no_selection(last.cursor)
     /\ last.doc_before.st = "ok")
    => LET head == last.cursor.head
           before == last.doc_before.bytes
           k == Node_line_idx_to_abs_idx(last.root_before, head.row).val + head.col
       IN /\ status = "ok"
          /\ last.st = "ok"
          /\ last.pos = head
          /\ IF k < Len(before)
             THEN /\ Doc = BytesResult("ok", SubSeq(before, 1, k)
                                               \o SubSeq(before, k + 2, Len(before)))
                  /\ last.deleted = <<before[k + 1]>>
             ELSE /\ Doc = last.doc_before
                  /\ root = last.root_before
                  /\ last.deleted = <<>>

(***************************************************************************)
(* Further properties of the piece table                                   *)
(***************************************************************************)
\* C25: PieceTable.insert(pos, bytes) with non-empty bytes and pos > len()
\* returns an error and leaves the pieces, the add buffer and both journals
\* as they were.
C25_InsertOutOfBounds ==
    (/\ last.op = "insert"
     /\ last.bytes # <<>>
     /\ ~AnyLenPanics(last.pieces_before)
     /\ ULt(PieceTable_len(last.pieces_before), last.pos))
    => /\ status = "ok"
       /\ last.st = "err"
       /\ pieces = last.pieces_before
       /\ buf = last.buf_before
       /\ undo_stack = last.undo_before
       /\ redo_stack = last.redo_before

\* An insert past the end was refused on a table whose add buffer and redo
\* journal are not empty
C25_Witness ==
    /\ last.op = "insert"
    /\ last.st = "err"
    /\ ULt(PieceTable_len(last.pieces_before), last.pos)
    /\ last.buf_before # <<>>
    /\ last.redo_before # <<>>
    /\ pieces = last.pieces_before

\* C26: after reset_to_mmap(new) the pieces are exactly one Original piece
\* over [0, |new|), the add buffer and both journals are empty, and an undo()
\* or a redo() that follows changes nothing.
C26_ResetPostState ==
    last.op = "reset_to_mmap" =>
      /\ status = "ok"
      /\ original = last.bytes
      /\ pieces = <<Piece("Original", 0, Len(original))>>
      /\ buf = <<>>
      /\ undo_stack = <<>>
      /\ redo_stack = <<>>
      /\ PieceTable_undo(CurTable) = TableResult("ok", CurTable)
      /\ PieceTable_redo(CurTable) = TableResult("ok", CurTable)

\* The table that was reset had edits in its add buffer, several pieces and
\* entries in both journals
C26_Witness ==
    /\ last.op = "reset_to_mmap"
    /\ last.buf_before # <<>>
    /\ Len(last.pieces_before) >= 2
    /\ last.undo_before # <<>>
    /\ last.bytes # <<>>
    /\ Len(pieces) = 1

\* The line lengths of content, newline included, with the empty last line of
\* a content that ends in a newline
LinesOf(content) ==
    LET segs == split_lens(content) IN
    [i \in 1..Len(segs) |-> IF i < Len(segs) THEN segs[i] + 1 ELSE segs[i]]

\* C27: after a successful save() of a TextBuffer with a file path the bytes
\* of the target file, the document bytes before the save and the document
\* bytes after it are equal, is_dirty is false, and the line index describes
\* that content: its byte length and its line lengths are those of the
\* content, as typing or as BTreeLineIndex::new lays them out.
C27_SavePreservesContent ==
    (status = "ok" /\ last.op = "save" /\ last.st = "ok") =>
      /\ Doc.st = "ok"
      /\ Doc = last.doc_before
      /\ original = Doc.bytes
      /\ ~is_dirty
      /\ byte_length(CurBuffer) = Len(Doc.bytes)
      /\ \/ LineLengths(root) = LinesOf(Doc.bytes)
         \/ LineLengths(root) = LineLengths(BTreeLineIndex_new(Doc.bytes).root)

(***************************************************************************)
(* Invariants of the piece sequence                                        *)
(***************************************************************************)
\* C28: after every completed PieceTable mutation (new, insert, delete, undo,
\* redo, reset_to_mmap, the reset to an empty file included) no piece of the
\* piece sequence has start = end.
C28_NoZeroLengthPieces ==
    (status = "ok" /\ last.st = "ok") =>
      \A i \in 1..Len(pieces) : pieces[i].range.start # pieces[i].range.end

\* C29: in every state reachable by insert, delete, undo and redo every piece
\* has start <= end <= the length of the buffer it references, the mapped
\* file for Original and the add buffer for Add.
C29_PieceRangesInBuffer ==
    status = "ok" =>
      \A i \in 1..Len(pieces) :
        /\ pieces[i].range.start <= pieces[i].range.end
        /\ pieces[i].range.end <= IF pieces[i].buf_kind = "Original"
                                  THEN Len(original) ELSE Len(buf)

(***************************************************************************)
(* Shape of the line index                                                 *)
(***************************************************************************)
\* Every leaf below node holds at most MAX_CHILDREN line lengths and every
\* internal node at most MAX_CHILDREN children
RECURSIVE BranchingBounded(_)
BranchingBounded(node) ==
    IF node.leaf THEN Len(node.line_lengths) <= MAX_CHILDREN
    ELSE /\ Len(node.children) <= MAX_CHILDREN
         /\ \A i \in 1..Len(node.children) : BranchingBounded(node.children[i])

\* C30: after build and after any sequence of insert and remove calls, an
\* insert of a text with many newlines included, every leaf holds at most 16
\* line lengths and every internal node at most 16 children.
C30_BranchingFactor ==
    status = "ok" => BranchingBounded(root)

(***************************************************************************)
(* The search cache                                                        *)
(***************************************************************************)
\* C31: in every index state reached by build, insert and remove, and after
\* any earlier queries, a line_idx_to_abs_idx or abs_idx_to_line_idx query
\* that may use the cache (bust_cache = false) returns what the same query
\* returns from the tree (bust_cache = true).
C31_CacheNotLoadBearing ==
    (status = "ok" /\ last.op \in {"line_idx_to_abs_idx", "abs_idx_to_line_idx"})
    => last.res = last.tree

(***************************************************************************)
(* The index built from a text                                             *)
(***************************************************************************)
\* C32: the index built from a non-empty text that ends with a newline has
\* exactly one line entry per newline byte, each ending at its newline, so
\* get_line_length_at(number of newlines) is None.
C32_BuildTrailingNewline ==
    (last.op = "new" /\ text # <<>> /\ text[Len(text)] = NL) =>
      LET n == Len(memchr_iter(text, 0)) IN
      /\ root.summary.line_count = n
      /\ LineLengths(root) = SubSeq(LinesOf(text), 1, n)
      /\ BTreeLineIndex_get_line_length_at(CurIndex, n) = None
      /\ BTreeLineIndex_get_line_length_at(CurIndex, n - 1).st = "some"

\* The index was built from a text ending in a newline that fills more than
\* one leaf
C32_Witness ==
    /\ last.op = "new"
    /\ text # <<>> /\ text[Len(text)] = NL
    /\ ~root.leaf
    /\ BTreeLineIndex_get_line_length_at(CurIndex, Len(memchr_iter(text, 0))) = None

(***************************************************************************)
(* The journals of the piece table                                         *)
(***************************************************************************)
\* C33: after a successful delete(pos, length) with pos + length <= len() the
\* pieces stored in the pushed Delete journal entry, resolved against their
\* buffers and concatenated in order, are the bytes D[pos..pos+length) of the
\* document before the delete, and their lengths sum to length.
C33_DeleteJournalExact ==
    (/\ status = "ok" /\ last.op = "delete" /\ last.st = "ok"
     /\ last.len > 0
     /\ last.doc_before.st = "ok"
     /\ last.pos + last.len <= Len(last.doc_before.bytes))
    => /\ Len(undo_stack) = Len(last.undo_before) + 1
       /\ LET cmd == undo_stack[Len(undo_stack)] IN
          /\ cmd.kind = "Delete"
          /\ ~AnyLenPanics(cmd.removed)
          /\ PieceTable_len(cmd.removed) = last.len
          /\ iter_bytes(original, buf, cmd.removed)
               = BytesResult("ok", Slice(last.doc_before.bytes, last.pos,
                                         last.pos + last.len))

(***************************************************************************)
(* Deleting through the Document                                           *)
(***************************************************************************)
\* C34: after two consecutive Document.delete(false) calls at an unmoved
\* cursor without selection, each removing one byte that is not a newline,
\* the history holds one new Delete transaction whose text is the two removed
\* bytes in document order, and one Document.undo() restores the bytes the
\* document had before the deletions.
C34_ForwardDeleteOrder ==
    LET D0 == last.prev.doc_before.bytes
        head == last.cursor_before.head
        k == Node_line_idx_to_abs_idx(root, head.row).val + head.col
        before == last.prev.history_before.undo_stack
        n == Len(before)
        top == history.undo_stack[Len(history.undo_stack)]
    IN (/\ status = "ok"
        /\ last.op = "delete_forward" /\ last.st = "ok"
        /\ last.prev.op = "delete_forward" /\ last.prev.st = "ok"
        /\ no_selection(last.cursor_before)
        /\ last.prev.cursor_before.head = head
        /\ last.prev.cursor_before.anchor = head
        /\ doc_cursor.head = head
        /\ last.prev.doc_before.st = "ok" /\ Doc.st = "ok"
        /\ k + 2 <= Len(D0)
        /\ D0[k + 1] # NL /\ D0[k + 2] # NL
        /\ Doc.bytes = SubSeq(D0, 1, k) \o SubSeq(D0, k + 3, Len(D0))
        /\ (n = 0 \/ before[n].actions[Len(before[n].actions)].kind # "Delete"))
       => /\ Len(history.undo_stack) = n + 1
          /\ Len(top.actions) = 1
          /\ top.actions[1].kind = "Delete"
          /\ top.actions[1].text = <<D0[k + 1], D0[k + 2]>>
          /\ Bind(Document_undo(original, CurDocument), LAMBDA u :
               /\ u.st = "ok"
               /\ iter_bytes(original, u.doc.text_buffer.table.buf,
                             u.doc.text_buffer.table.pieces)
                    = BytesResult("ok", D0))

\* C35: lines(start_line, end_line) yields, in increasing order, exactly one
\* item (i, [offset of line i, offset of line i + length of line i)) for each
\* i with start_line <= i < min(end_line, line_count), and nothing else; the
\* offsets and lengths are the ones the tree itself answers.
C35_LinesYieldsRequestedRange ==
    LET lo == last.pos
        total == root.summary.line_count
        hi == IF last.len < total THEN last.len ELSE total
        n == IF hi > lo THEN hi - lo ELSE 0
    IN (last.op = "lines")
       => /\ Len(last.res) = n
          /\ \A k \in 1..n :
               LET i == lo + k - 1 IN
               /\ Node_line_idx_to_abs_idx(root, i).st = "some"
               /\ Node_get_line_length_at(root, i).st = "some"
               /\ last.res[k] = Item(i, Node_line_idx_to_abs_idx(root, i).val,
                                     Node_line_idx_to_abs_idx(root, i).val
                                       + Node_get_line_length_at(root, i).val)

\* C36: for every table and pos <= len, locate(pos) = (i, o) with the lengths
\* of the pieces before i plus o equal to pos; at an interior piece boundary
\* i is the left piece and o its length; and at pos = len the answer is
\* (number of pieces, 0), also when the table is not empty.
C36_LocateTieBreak ==
    LET ordered == \A i \in 1..Len(pieces) : pieces[i].range.start <= pieces[i].range.end
        total == PieceTable_len(pieces)
    IN (status = "ok" /\ ordered)
       => \A pos \in 0..total :
            LET l == locate(pieces, pos) IN
            /\ ~l.panic
            /\ PieceTable_len(SubSeq(pieces, 1, l.idx)) + l.offset = pos
            /\ \A i \in 1..(Len(pieces) - 1) :
                 (pos = PieceTable_len(SubSeq(pieces, 1, i)) /\ PieceLen(pieces[i]) > 0
                  /\ pos < total)
                   => (l.idx = i - 1 /\ l.offset = PieceLen(pieces[i]))
            /\ (pos = total) => (l.idx = Len(pieces) /\ l.offset = 0)

\* C37: an insert at the end of an Add piece whose range ends at the end of
\* the add buffer extends that piece by the inserted length and keeps the
\* number of pieces; so a table that started empty and was typed into one
\* byte at a time at successive positions holds exactly one piece.
C37_InsertCoalesces ==
    LET before == last.pieces_before
        ordered == \A i \in 1..Len(before) : before[i].range.start <= before[i].range.end
    IN /\ (status = "ok" /\ last.op = "insert" /\ last.st = "ok" /\ ordered)
          => \A i \in 1..Len(before) :
               (/\ before[i].buf_kind = "Add"
                /\ before[i].range.end = Len(last.buf_before)
                /\ last.pos = PieceTable_len(SubSeq(before, 1, i)))
               => pieces = [before EXCEPT ![i].range.end = @ + Len(last.bytes)]
       /\ (/\ status = "ok" /\ original = <<>> /\ calls > 0
           /\ Len(undo_stack) = calls /\ redo_stack = <<>>
           /\ \A k \in 1..Len(undo_stack) :
                /\ undo_stack[k].kind = "Insert"
                /\ undo_stack[k].pos = k - 1
                /\ undo_stack[k].range.end - undo_stack[k].range.start = 1)
          => Len(pieces) = 1

C37_Witness ==
    /\ status = "ok" /\ original = <<>> /\ calls = MaxCalls
    /\ Len(undo_stack) = MaxCalls /\ redo_stack = <<>>
    /\ \A k \in 1..Len(undo_stack) :
         undo_stack[k].kind = "Insert" /\ undo_stack[k].pos = k - 1
    /\ last.op = "insert" /\ last.st = "ok"
    /\ Len(last.pieces_before) = 1 /\ Len(pieces) = 1
    /\ pieces[1] = [buf_kind |-> "Add", range |-> Range(0, MaxCalls)]

\* C38: delete(pos, length) with length > 0 and pos + length beyond the
\* document length returns an error and leaves the pieces and both journals
\* as they were.
C38_DeletePastEndIsError ==
    (/\ last.op = "delete" /\ last.len > 0
     /\ last.doc_before.st = "ok"
     /\ last.pos + last.len > Len(last.doc_before.bytes))
    => /\ last.st = "err"
       /\ status = "ok"
       /\ pieces = last.pieces_before
       /\ undo_stack = last.undo_before
       /\ redo_stack = last.redo_before

\* C39: the add buffer is append-only across insert, delete, undo and redo:
\* delete, undo and redo leave it unchanged, a successful insert appends
\* exactly the inserted bytes, and no insert does anything but append them,
\* so the earlier contents stay a prefix of the later ones.
C39_AddBufferAppendOnly ==
    /\ (last.op \in {"delete", "undo", "redo"}) => buf = last.buf_before
    /\ (last.op = "insert")
         => /\ buf \in { last.buf_before, last.buf_before \o last.bytes }
            /\ (last.st = "ok" /\ last.bytes # <<>>) => buf = last.buf_before \o last.bytes
            /\ SubSeq(buf, 1, Len(last.buf_before)) = last.buf_before

C39_Witness ==
    /\ status = "ok" /\ last.op = "undo" /\ last.st = "ok"
    /\ last.undo_before # <<>>
    /\ last.undo_before[Len(last.undo_before)].kind = "Insert"
    /\ last.undo_before[Len(last.undo_before)].range.start > 0
    /\ buf = last.buf_before /\ Len(buf) >= 2

\* C40: a backspace with no selection and the cursor at (0,0) changes
\* nothing: the document's bytes, the line index, the cursor position, the
\* undo stack and the redo stack are what they were before the call.
C40_BackspaceAtStartIsNoOp ==
    (/\ last.op = "backspace"
     /\ no_selection(last.cursor_before)
     /\ last.cursor_before.head = Position(0, 0))
    => /\ last.st = "ok" /\ status = "ok"
       /\ Doc = last.doc_before
       /\ root = last.root_before /\ cache = last.cache_before
       /\ doc_cursor.head = Position(0, 0) /\ doc_cursor.anchor = Position(0, 0)
       /\ history.undo_stack = last.history_before.undo_stack
       /\ history.redo_stack = last.history_before.redo_stack

C40_Witness ==
    /\ last.op = "backspace" /\ last.st = "ok" /\ status = "ok"
    /\ no_selection(last.cursor_before)
    /\ last.cursor_before.head = Position(0, 0)
    /\ Doc.st = "ok" /\ Doc.bytes # <<>>
    /\ history.redo_stack # <<>>
    /\ history = last.history_before

============================================================================
